---- MODULE Spec2Model ----
(***************************************************************************)
(* Model of the Monte Carlo dividend/margin engine of                      *)
(* src/strategies/dividend_margin_monte_carlo.py.                          *)
(*                                                                         *)
(* Numbers.  The code computes in binary floating point; the model         *)
(* computes the same formulas in exact integer arithmetic:                 *)
(*   - money is an integer number of cents, and every product or quotient  *)
(*     that yields money is the exact rational result rounded down to the  *)
(*     cent (Scale);                                                       *)
(*   - a monthly return is an integer number of percent, an allocation     *)
(*     weight or a bucket yield an integer number of percent, a blended    *)
(*     yield an integer number of basis points (1e-4);                     *)
(*   - ratios that the code only compares (the portfolio:margin ratio, the *)
(*     drawdown, the yield decline) are kept as exact fractions            *)
(*     [num, den] and compared by cross-multiplication.                    *)
(* TLC integers are 32 bits wide, so products are formed by MulDivMod,     *)
(* which never holds an intermediate above 3 * den.                        *)
(***************************************************************************)
EXTENDS Integers, Sequences, FiniteSets, TLC

VARIABLES
    config,                  \* the engine's attributes (self.*)
    overrides,               \* attribute assignments made after construction
    scenario_returns,        \* the return arrays handed to run_single_scenario
    call_budget,             \* calls of run_single_scenario the caller will make
    called,                  \* the scenario index of each call made so far
    results,                 \* the records returned so far, in call order
    pc,                      \* position inside run_single_scenario
    scenario_idx,
    month,
    layer1_portfolio, income_portfolio, googl_position, hedge_position,
    margin_balance,
    total_dividends_collected, max_drawdown, peak_total_value,
    margin_call_triggered, backstop_used, backstop_amount_used,
    total_portfolio_value, current_yield, monthly_dividend, margin_draw,
    monthly_portfolio, monthly_layer1, monthly_layer2, monthly_margin,
    monthly_dividends, monthly_googl, monthly_hedge,
    df,                      \* the record set handed to analyze_results
    summary,                 \* what analyze_results returned
    tools,                   \* the tool names handed to run_analysis
    tool_outcomes,           \* what the body of each tool that ran did
    tool_results,            \* run_analysis' dictionary of envelopes
    scenario,                \* simulate_market_returns: the scenario loop's index
    regime,                  \* ... the regime assigned to that scenario
    market_drift,            \* ... its monthly drift
    vol_multiplier,          \* ... its volatility multiplier
    regime_draws             \* the calls of np.random.choice so far

generator == <<scenario, regime, market_drift, vol_multiplier, regime_draws>>

engine == <<config, overrides, scenario_returns, call_budget, generator>>

layers == <<layer1_portfolio, income_portfolio, googl_position, hedge_position>>

margin == <<margin_balance, margin_call_triggered, backstop_used, backstop_amount_used>>

tracking == <<total_dividends_collected, max_drawdown, peak_total_value>>

month_locals == <<total_portfolio_value, current_yield, monthly_dividend,
                  margin_draw>>

series == <<monthly_portfolio, monthly_layer1, monthly_layer2, monthly_margin,
            monthly_dividends, monthly_googl, monthly_hedge>>

walk == <<pc, scenario_idx, month, layers, margin, tracking, month_locals, series>>

aggregate == <<df, summary>>

returned == <<called, results>>

runner == <<tools, tool_outcomes, tool_results>>

vars == <<engine, returned, walk, aggregate, runner>>

-----------------------------------------------------------------------------
(* Bounds of the model. *)

\* Attribute assignments a caller makes between construction and the first run.
MaxOverrides == 1

\* Calls of run_single_scenario a caller makes on one engine and one set of
\* return arrays (specification SpecRerun).
MaxCalls == 2

\* Largest record set handed to analyze_results (specification SpecAgg).
MaxRecords == 3

\* get_margin_draw is asked for the months -MaxProbeMonth..MaxProbeMonth
\* (specification SpecDraw).
MaxProbeMonth == 30

\* Largest n_scenarios handed to simulate_market_returns (specification
\* SpecGenerate).
MaxScenarios == 2

-----------------------------------------------------------------------------
(* Arithmetic. *)

Max(a, b) == IF a >= b THEN a ELSE b

Min(a, b) == IF a <= b THEN a ELSE b

\* None and Some(x): Python's None and a present value.
None == << >>

Some(x) == <<x>>

\* <<q, r>> with a * b = q * c + r and 0 <= r < c, for a, b >= 0 and c > 0.
RECURSIVE MulDivMod(_, _, _)
MulDivMod(a, b, c) ==
    IF b = 0 THEN <<0, 0>>
    ELSE LET h == MulDivMod(a, b \div 2, c)
             add == IF b % 2 = 1 THEN a ELSE 0
             r == 2 * h[2] + (add % c)
         IN  <<2 * h[1] + (add \div c) + (r \div c), r % c>>

\* v * (num / den) in cents, for v >= 0 and den > 0; a negative factor gives
\* a negative amount.
Scale(v, num, den) ==
    IF num >= 0 THEN MulDivMod(v, num, den)[1]
    ELSE 0 - MulDivMod(v, 0 - num, den)[1]

\* x < y for fractions x = [num, den], y = [num, den] with den > 0.
FracLess(x, y) ==
    IF x.num >= 0 /\ y.num >= 0
    THEN LET p == MulDivMod(x.num, y.den, x.den)   \* x.num*y.den = q*x.den + r
         IN  p[1] < y.num
    ELSE IF x.num >= 0 THEN FALSE
    ELSE IF y.num >= 0 THEN TRUE
    ELSE \* both negative: x < y iff |x| > |y|
         LET p == MulDivMod(0 - x.num, y.den, x.den)
         IN  p[1] > 0 - y.num \/ (p[1] = 0 - y.num /\ p[2] > 0)

RECURSIVE SumTo(_, _)
SumTo(f, n) == IF n = 0 THEN 0 ELSE f[n] + SumTo(f, n - 1)

-----------------------------------------------------------------------------
(* The engine's configuration: DividendMarginMonteCarlo.__init__. *)

\* list(self.bucket_allocations.keys()), in insertion order.
bucket_names == <<"jpmorgan_income", "cef_stable", "covered_call_etfs",
                  "yieldmax", "drip_v2_cefs">>

\* sum(bucket_allocations[b] * bucket_yields[b] for b in bucket_allocations):
\* percent times percent, so basis points.
BlendedYield(allocations, yields) ==
    SumTo([i \in 1..Len(allocations) |-> allocations[i] * yields[i]],
          Len(allocations))

\* The attributes __init__ sets.  Percentages are whole percents, volatilities
\* are per mille, money is cents; margin_rate is per 100000 and
\* margin_monthly_rate is the fraction margin_rate / 12; each entry of
\* margin_schedule is <<first month, last month, amount>> (a range and its
\* draw), in insertion order.
DefaultConfig ==
    [ layer1_volatility           |-> 220,
      bucket_allocations          |-> <<27, 20, 35, 10, 8>>,
      bucket_yields               |-> <<9, 21, 16, 70, 9>>,
      bucket_volatility           |-> <<69, 150, 135, 450, 120>>,
      target_yield                |-> BlendedYield(<<27, 20, 35, 10, 8>>,
                                                   <<9, 21, 16, 70, 9>>),
      googl_monthly_diversion     |-> 100000,
      googl_volatility            |-> 300,
      layer2_deployment           |-> 1151700,
      layer3_deployment           |-> 80000,
      simulation_months           |-> 28,
      margin_schedule             |-> << <<1, 6, 450000>>, <<7, 12, 621300>>,
                                         <<13, 28, 800000>> >>,
      margin_rate                 |-> 11825,
      margin_monthly_rate         |-> [num |-> 11825, den |-> 12 * 100000],
      min_portfolio_margin_ratio  |-> 3,
      max_margin_balance          |-> 10000000,
      business_income_backstop    |-> 2200000,
      yield_degradation_rate      |-> 15,
      active_management           |-> TRUE,
      yield_recovery_on_rotation  |-> 12 ]

\* An attribute assignment on the constructed engine (the attributes are
\* public and __init__ takes no arguments, so this is the only way a caller
\* configures a run).  target_yield and margin_monthly_rate were computed by
\* __init__ and are not recomputed by a later assignment.
AttributeValues ==
    { <<"active_management", FALSE>>,
      <<"yield_degradation_rate", 50>>,
      <<"bucket_allocations", <<27, 20, 35, 0, 8>> >>,
      <<"min_portfolio_margin_ratio", 0>>,
      <<"layer1_volatility", 0 - 220>>,
      <<"margin_schedule", << >> >> }

SetAttribute(cfg, name, value) == [cfg EXCEPT ![name] = value]

\* The invariants of a configuration (spec section 3 and section 7): the
\* bucket weights sum to 1, the minimum margin ratio is positive, no
\* volatility is negative.
ValidConfig(cfg) ==
    /\ SumTo(cfg.bucket_allocations, Len(cfg.bucket_allocations)) = 100
    /\ cfg.min_portfolio_margin_ratio > 0
    /\ cfg.layer1_volatility >= 0
    /\ cfg.googl_volatility >= 0
    /\ \A i \in 1..Len(cfg.bucket_volatility) : cfg.bucket_volatility[i] >= 0

-----------------------------------------------------------------------------
(* get_margin_draw and calculate_monthly_yield. *)

\* ScheduleLookup with ranges that end one month early.
RECURSIVE ScheduleLookup_ShortRange(_, _, _)
ScheduleLookup_ShortRange(schedule, i, m) ==
    IF i > Len(schedule) THEN 0
    ELSE IF schedule[i][1] <= m /\ m < schedule[i][2] THEN schedule[i][3]
    ELSE ScheduleLookup_ShortRange(schedule, i + 1, m)

\* The loop over margin_schedule.items(): the amount of the first range that
\* holds the month, 0 when no range does.
RECURSIVE ScheduleLookup(_, _, _)
ScheduleLookup(schedule, i, m) ==
    IF i > Len(schedule) THEN 0
    ELSE IF schedule[i][1] <= m /\ m <= schedule[i][2] THEN schedule[i][3]
    ELSE ScheduleLookup(schedule, i + 1, m)

get_margin_draw(cfg, m) == ScheduleLookup(cfg.margin_schedule, 1, m)

\* The position of a run that an uncaught ZeroDivisionError ended.
ZeroDivisionError == "ZeroDivisionError"

\* x / d raises ZeroDivisionError.
Raises(d) == d = 0

\* BaseYield with end_yield = start_yield * (1 + rate).
BaseYield_SignSlip(cfg, m) ==
    [num |-> cfg.target_yield
               * (100 * cfg.simulation_months
                    + cfg.yield_degradation_rate * (m - 1)),
     den |-> 100 * cfg.simulation_months]

\* current_yield before the active-management rule, as a fraction of basis
\* points: start - ((start - end) / simulation_months) * (month - 1) with
\* end = start * (1 - rate), over the common denominator
\* 100 * simulation_months.
BaseYield(cfg, m) ==
    [num |-> cfg.target_yield
               * (100 * cfg.simulation_months
                    - cfg.yield_degradation_rate * (m - 1)),
     den |-> 100 * cfg.simulation_months]

\* The rule applies: self.active_management and month > 6.
ManagementApplies(cfg, m) == cfg.active_management /\ m > 6

\* DeclineTriggers with the threshold at 10%.
DeclineTriggers_AtTenPercent(cfg, y) ==
    LET target == cfg.target_yield * y.den
    IN  (target - y.num) * 100 > 10 * target

\* The degradation rates (whole percents) at which the binary64 quotient
\* (target - current) / target of a decline of exactly 15% comes out as
\* 0.15000000000000005, above the literal 0.15; at the other two whole-percent
\* rates with such a month, 21 and 42, it comes out as 0.1499999999999999.
QuotientRoundsUp == {20, 28, 30, 35, 60, 70}

\* yield_decline > 0.15 with yield_decline = (target - current) / target,
\* for target > 0: the decline exceeds 15%, or is exactly 15% and the
\* computed quotient is rounded above the literal.
DeclineTriggers(cfg, y) ==
    LET target == cfg.target_yield * y.den
    IN  \/ (target - y.num) * 100 > 15 * target
        \/ /\ (target - y.num) * 100 = 15 * target
           /\ cfg.yield_degradation_rate \in QuotientRoundsUp

\* min(target_yield, current_yield + target_yield * yield_recovery_on_rotation)
Recovered(cfg, y) ==
    [num |-> Min(cfg.target_yield * y.den,
                 y.num + (cfg.target_yield * cfg.yield_recovery_on_rotation
                             * y.den) \div 100),
     den |-> y.den]

\* calculate_monthly_yield(month) raises ZeroDivisionError: one of its two
\* divisors, simulation_months and (under the active-management rule)
\* target_yield, is zero.
YieldRaises(cfg, m) ==
    \/ Raises(cfg.simulation_months)
    \/ ManagementApplies(cfg, m) /\ Raises(cfg.target_yield)

\* calculate_monthly_yield(month), when it does not raise: a fraction
\* [num, den] of basis points.
calculate_monthly_yield(cfg, m) ==
    LET y == BaseYield(cfg, m)
    IN  IF ManagementApplies(cfg, m) /\ DeclineTriggers(cfg, y)
        THEN Recovered(cfg, y)
        ELSE y

-----------------------------------------------------------------------------
(* Scenario returns: the arrays simulate_market_returns hands over.  A      *)
(* profile is one month's returns in percent; a path uses one profile up to *)
(* a switch month and another after it.                                     *)

Profile(l1, b, g, h) == [layer1 |-> l1, buckets |-> b, googl |-> g, hedge |-> h]

Flat == Profile(0, <<0, 0, 0, 0, 0>>, 0, 0)

\* Returns at and below -100%.
Crash == Profile(0 - 150, <<0 - 100, 0 - 120, 0 - 110, 0 - 250, 0 - 100>>,
                 0 - 100, 0 - 300)

Bear == Profile(0 - 20, <<0 - 5, 0 - 10, 0 - 10, 0 - 30, 0 - 8>>, 0 - 25, 10)

Boom == Profile(5, <<8, 10, 10, 20, 8>>, 8, 0 - 15)

\* One month that multiplies the income layer.
Jackpot == Profile(0, <<600, 600, 600, 600, 600>>, 0, 0)

Paths ==
    { <<Flat, Flat, 0>>, <<Crash, Crash, 0>>, <<Bear, Bear, 0>>,
      <<Boom, Boom, 0>>,
      <<Flat, Crash, 12>>, <<Boom, Crash, 20>>, <<Boom, Bear, 12>>,
      <<Jackpot, Flat, 1>>, <<Jackpot, Crash, 1>>, <<Jackpot, Bear, 1>>,
      <<Crash, Boom, 1>>, <<Crash, Flat, 2>>, <<Bear, Boom, 6>>,
      <<Flat, Bear, 6>> }

\* The profile of month index i (0-based, as the arrays are indexed) on a path.
ProfileAt(path, i) == IF i + 1 <= path[3] THEN path[1] ELSE path[2]

\* The arrays for the scenarios 0..n-1 following the paths ps[1..n].
ReturnArrays(ps, months) ==
    LET n == Len(ps)
        col(f(_)) == [s \in 0..(n - 1) |->
                        [i \in 0..(months - 1) |-> f(ProfileAt(ps[s + 1], i))]]
        l1(p) == p.layer1
        bk(p) == p.buckets
        gg(p) == p.googl
        hd(p) == p.hedge
    IN  [layer1_returns |-> col(l1), bucket_returns |-> col(bk),
         googl_returns |-> col(gg), hedge_returns |-> col(hd)]

-----------------------------------------------------------------------------
(* run_single_scenario: the steps of one month, as operators. *)

\* self.simulation_months read through the loop header.
Months(cfg) == cfg.simulation_months

\* ApplyReturn without its floor.
ApplyReturn_NoFloor(value, ret) ==
    IF value > 0 THEN Scale(value, 100 + ret, 100) ELSE value

\* Step 2: a layer worth more than 0 is multiplied by (1 + return) and
\* floored at 0; a layer worth 0 is left alone.
ApplyReturn(value, ret) ==
    IF value > 0 THEN Max(0, Scale(value, 100 + ret, 100)) ELSE value

\* sum(bucket_allocations[bucket_names[i]] * bucket_returns[month - 1, i]):
\* percent times percent, so basis points.
WeightedReturn(cfg, rets) ==
    SumTo([i \in 1..Len(bucket_names) |-> cfg.bucket_allocations[i] * rets[i]],
          Len(bucket_names))

ApplyWeightedReturn(value, weighted) ==
    IF value > 0 THEN Max(0, Scale(value, 10000 + weighted, 10000)) ELSE value

\* Step 4: income_portfolio * (current_yield / 12), the yield a fraction of
\* basis points.
Dividend(income, y) == Scale(income, y.num, y.den * 10000 * 12)

\* DrawOrPaydown that borrows the whole draw in a month of shortfall.
DrawOrPaydown_WholeDraw(balance, dividend, draw) ==
    IF dividend < draw
    THEN balance + draw
    ELSE Max(0, balance - (dividend - draw))

\* DrawOrPaydown without the floor of the paydown.
DrawOrPaydown_NoFloor(balance, dividend, draw) ==
    IF dividend < draw
    THEN balance + (draw - dividend)
    ELSE balance - (dividend - draw)

\* Step 5: the balance after the month's draw or paydown.
DrawOrPaydown(balance, dividend, draw) ==
    IF dividend < draw
    THEN balance + (draw - dividend)
    ELSE Max(0, balance - (dividend - draw))

\* AccrueInterest that charges the annual rate every month.
AccrueInterest_AnnualRate(cfg, balance) ==
    IF balance > 0
    THEN balance + Scale(balance, cfg.margin_monthly_rate.num * 12,
                         cfg.margin_monthly_rate.den)
    ELSE balance

\* Step 6: the balance after interest.
AccrueInterest(cfg, balance) ==
    IF balance > 0
    THEN balance + Scale(balance, cfg.margin_monthly_rate.num,
                         cfg.margin_monthly_rate.den)
    ELSE balance

\* RatioGuard that lets a zero balance through.
RatioGuard_Missing(balance) == balance >= 0

\* Step 7: the guard of the ratio, and the margin-call test.
RatioGuard(balance) == balance > 0

\* MarginCall that tests the ratio against 1 instead of the configured minimum.
MarginCall_BelowOne(cfg, total, balance) ==
    FracLess([num |-> total, den |-> balance], [num |-> 1, den |-> 1])

MarginCall(cfg, total, balance) ==
    FracLess([num |-> total, den |-> balance],
             [num |-> cfg.min_portfolio_margin_ratio, den |-> 1])

\* Injection without its cap at the balance.
Injection_Uncapped(cfg, balance) == cfg.business_income_backstop

Injection(cfg, balance) == Min(cfg.business_income_backstop, balance)

\* Step 8: the guard of the drawdown.
DrawdownGuard(peak) == peak > 0

\* BreakEvenScan that asks for a dividend above the draw.
RECURSIVE BreakEvenScan_Strict(_, _, _)
BreakEvenScan_Strict(cfg, dividends, i) ==
    IF i > Len(dividends) THEN None
    ELSE IF dividends[i] > get_margin_draw(cfg, i) THEN Some(i)
    ELSE BreakEvenScan_Strict(cfg, dividends, i + 1)

\* The first month (1-based) from position i on whose dividend covers the
\* month's draw; None when there is none.
RECURSIVE BreakEvenScan(_, _, _)
BreakEvenScan(cfg, dividends, i) ==
    IF i > Len(dividends) THEN None
    ELSE IF dividends[i] >= get_margin_draw(cfg, i) THEN Some(i)
    ELSE BreakEvenScan(cfg, dividends, i + 1)

\* PayoffScan without the i > 0 test.
RECURSIVE PayoffScan_FromFirst(_, _)
PayoffScan_FromFirst(margins, i) ==
    IF i > Len(margins) THEN None
    ELSE IF margins[i] = 0 THEN Some(i)
    ELSE PayoffScan_FromFirst(margins, i + 1)

\* PayoffScan that leaves out the last recorded month.
RECURSIVE PayoffScan_BeforeLast(_, _)
PayoffScan_BeforeLast(margins, i) ==
    IF i >= Len(margins) THEN None
    ELSE IF margins[i] = 0 /\ i - 1 > 0 THEN Some(i)
    ELSE PayoffScan_BeforeLast(margins, i + 1)

\* The first month after month 1 whose recorded margin balance is 0.
RECURSIVE PayoffScan(_, _)
PayoffScan(margins, i) ==
    IF i > Len(margins) THEN None
    ELSE IF margins[i] = 0 /\ i - 1 > 0 THEN Some(i)
    ELSE PayoffScan(margins, i + 1)

\* final_portfolio_value / final_margin_balance if final_margin_balance > 0
\* else float('inf').
FinalRatioGuard(balance) == balance > 0

FinalMarginRatio(total, balance) ==
    IF FinalRatioGuard(balance)
    THEN [inf |-> FALSE, num |-> total, den |-> balance]
    ELSE [inf |-> TRUE, num |-> 0, den |-> 1]

Last(seq) == seq[Len(seq)]

-----------------------------------------------------------------------------
(* The state before any call, and the locals of a finished call. *)

NoLocals ==
    /\ scenario_idx = 0
    /\ month = 0
    /\ layer1_portfolio = 0 /\ income_portfolio = 0
    /\ googl_position = 0 /\ hedge_position = 0
    /\ margin_balance = 0
    /\ total_dividends_collected = 0
    /\ max_drawdown = [num |-> 0, den |-> 1]
    /\ peak_total_value = 0
    /\ margin_call_triggered = FALSE /\ backstop_used = FALSE
    /\ backstop_amount_used = 0
    /\ total_portfolio_value = 0
    /\ current_yield = [num |-> 0, den |-> 1]
    /\ monthly_dividend = 0
    /\ margin_draw = 0
    /\ monthly_portfolio = << >> /\ monthly_layer1 = << >>
    /\ monthly_layer2 = << >> /\ monthly_margin = << >>
    /\ monthly_dividends = << >> /\ monthly_googl = << >>
    /\ monthly_hedge = << >>

\* No run_analysis has been asked for.
NoAnalysis ==
    /\ tools = {}
    /\ tool_outcomes = << >>
    /\ tool_results = << >>

\* A local of simulate_market_returns that has not been assigned.
Unassigned == "unassigned"

\* simulate_market_returns is not running.
NotGenerating ==
    /\ scenario = 0
    /\ regime = Unassigned
    /\ market_drift = 0
    /\ vol_multiplier = 0
    /\ regime_draws = << >>

\* The engine after DividendMarginMonteCarlo(), return arrays for one scenario,
\* and a caller that will call run_single_scenario `calls` times.
Constructed(paths, calls) ==
    /\ config = DefaultConfig
    /\ overrides = 0
    /\ \E path \in paths :
         scenario_returns = ReturnArrays(<<path>>, Months(DefaultConfig))
    /\ call_budget = calls
    /\ called = << >>
    /\ results = << >>
    /\ pc = "idle"
    /\ NoLocals
    /\ NoAnalysis
    /\ NotGenerating
    /\ df = << >>
    /\ summary = None

Init == Constructed(Paths, 1)

\* A caller assigns one attribute of the engine before the first run.
SetAttr ==
    /\ pc = "idle" /\ results = << >>
    /\ overrides < MaxOverrides
    /\ \E av \in AttributeValues :
         config' = SetAttribute(config, av[1], av[2])
    /\ overrides' = overrides + 1
    /\ UNCHANGED <<scenario_returns, call_budget, generator, returned, walk,
                   aggregate, runner>>

\* run_single_scenario(scenario_returns, idx) is entered: the locals get
\* their starting values.
Call ==
    /\ pc = "idle"
    /\ Len(results) < call_budget
    /\ \E idx \in DOMAIN scenario_returns.layer1_returns :
         scenario_idx' = idx /\ called' = Append(called, idx)
    /\ layer1_portfolio' = 17007300
    /\ income_portfolio' = 6172500
    /\ googl_position' = 187600
    /\ hedge_position' = 1319900
    /\ margin_balance' = 322200
    /\ total_dividends_collected' = 0
    /\ max_drawdown' = [num |-> 0, den |-> 1]
    /\ peak_total_value' = 0
    /\ margin_call_triggered' = FALSE
    /\ backstop_used' = FALSE
    /\ backstop_amount_used' = 0
    /\ monthly_portfolio' = << >> /\ monthly_layer1' = << >>
    /\ monthly_layer2' = << >> /\ monthly_margin' = << >>
    /\ monthly_dividends' = << >> /\ monthly_googl' = << >>
    /\ monthly_hedge' = << >>
    /\ month' = 1
    /\ pc' = IF Months(config) >= 1 THEN "deploy" ELSE "final"
    /\ UNCHANGED <<engine, results, month_locals, aggregate, runner>>

\* Deploy that also puts the GOOGL diversion into the growth layer.
Deploy_IntoGrowth ==
    /\ pc = "deploy"
    /\ layer1_portfolio' = layer1_portfolio + config.googl_monthly_diversion
    /\ income_portfolio' = income_portfolio + config.layer2_deployment
    /\ googl_position' = googl_position + config.googl_monthly_diversion
    /\ hedge_position' = hedge_position + config.layer3_deployment
    /\ pc' = "returns"
    /\ UNCHANGED <<engine, returned, scenario_idx, month,
                   margin, tracking, month_locals, series, aggregate, runner>>

\* 1. Deploy new capital.
Deploy ==
    /\ pc = "deploy"
    /\ income_portfolio' = income_portfolio + config.layer2_deployment
    /\ googl_position' = googl_position + config.googl_monthly_diversion
    /\ hedge_position' = hedge_position + config.layer3_deployment
    /\ pc' = "returns"
    /\ UNCHANGED <<engine, returned, scenario_idx, month, layer1_portfolio,
                   margin, tracking, month_locals, series, aggregate, runner>>

\* ApplyReturns with a random shock of its own on the growth layer in the
\* first month.
ApplyReturns_Noisy ==
    /\ pc = "returns"
    /\ \E noise \in (IF month = 1 THEN {0, 1} ELSE {0}) :
         layer1_portfolio' =
           ApplyReturn(layer1_portfolio,
               scenario_returns.layer1_returns[scenario_idx][month - 1] + noise)
    /\ income_portfolio' =
         ApplyWeightedReturn(income_portfolio,
             WeightedReturn(config,
                 scenario_returns.bucket_returns[scenario_idx][month - 1]))
    /\ googl_position' =
         ApplyReturn(googl_position,
                     scenario_returns.googl_returns[scenario_idx][month - 1])
    /\ hedge_position' =
         ApplyReturn(hedge_position,
                     scenario_returns.hedge_returns[scenario_idx][month - 1])
    /\ pc' = "total"
    /\ UNCHANGED <<engine, returned, scenario_idx, month, margin, tracking,
                   month_locals, series, aggregate, runner>>

\* ApplyReturns that reads the hedge returns of the next scenario of the arrays.
ApplyReturns_Neighbour ==
    /\ pc = "returns"
    /\ layer1_portfolio' =
         ApplyReturn(layer1_portfolio,
                     scenario_returns.layer1_returns[scenario_idx][month - 1])
    /\ income_portfolio' =
         ApplyWeightedReturn(income_portfolio,
             WeightedReturn(config,
                 scenario_returns.bucket_returns[scenario_idx][month - 1]))
    /\ googl_position' =
         ApplyReturn(googl_position,
                     scenario_returns.googl_returns[scenario_idx][month - 1])
    /\ hedge_position' =
         LET n == Cardinality(DOMAIN scenario_returns.hedge_returns)
         IN  ApplyReturn(hedge_position,
                 scenario_returns.hedge_returns[(scenario_idx + 1) % n][month - 1])
    /\ pc' = "total"
    /\ UNCHANGED <<engine, returned, scenario_idx, month, margin, tracking,
                   month_locals, series, aggregate, runner>>

\* ApplyReturns that goes on to the dividend, the total left as it was
\* computed the month before.
ApplyReturns_SkipsTotal ==
    /\ pc = "returns"
    /\ layer1_portfolio' =
         ApplyReturn(layer1_portfolio,
                     scenario_returns.layer1_returns[scenario_idx][month - 1])
    /\ income_portfolio' =
         ApplyWeightedReturn(income_portfolio,
             WeightedReturn(config,
                 scenario_returns.bucket_returns[scenario_idx][month - 1]))
    /\ googl_position' =
         ApplyReturn(googl_position,
                     scenario_returns.googl_returns[scenario_idx][month - 1])
    /\ hedge_position' =
         ApplyReturn(hedge_position,
                     scenario_returns.hedge_returns[scenario_idx][month - 1])
    /\ pc' = "dividend"
    /\ UNCHANGED <<engine, returned, scenario_idx, month, margin, tracking,
                   month_locals, series, aggregate, runner>>

\* 2. Apply market returns.
ApplyReturns ==
    /\ pc = "returns"
    /\ layer1_portfolio' =
         ApplyReturn(layer1_portfolio,
                     scenario_returns.layer1_returns[scenario_idx][month - 1])
    /\ income_portfolio' =
         ApplyWeightedReturn(income_portfolio,
             WeightedReturn(config,
                 scenario_returns.bucket_returns[scenario_idx][month - 1]))
    /\ googl_position' =
         ApplyReturn(googl_position,
                     scenario_returns.googl_returns[scenario_idx][month - 1])
    /\ hedge_position' =
         ApplyReturn(hedge_position,
                     scenario_returns.hedge_returns[scenario_idx][month - 1])
    /\ pc' = "total"
    /\ UNCHANGED <<engine, returned, scenario_idx, month, margin, tracking,
                   month_locals, series, aggregate, runner>>

\* 3. Total portfolio value.
Total ==
    /\ pc = "total"
    /\ total_portfolio_value' =
         layer1_portfolio + income_portfolio + googl_position + hedge_position
    /\ pc' = "dividend"
    /\ UNCHANGED <<engine, returned, scenario_idx, month, layers, margin,
                   tracking, current_yield, monthly_dividend, margin_draw,
                   series, aggregate, runner>>

\* DividendIncome that adds to the total only what exceeds the month's draw.
DividendIncome_ExcessOnly ==
    /\ pc = "dividend"
    /\ IF YieldRaises(config, month)
       THEN /\ pc' = ZeroDivisionError
            /\ UNCHANGED <<current_yield, monthly_dividend,
                           total_dividends_collected>>
       ELSE /\ current_yield' = calculate_monthly_yield(config, month)
            /\ monthly_dividend' = Dividend(income_portfolio, current_yield')
            /\ total_dividends_collected' =
                 total_dividends_collected
                   + Max(0, monthly_dividend' - get_margin_draw(config, month))
            /\ pc' = "margin"
    /\ UNCHANGED <<engine, returned, scenario_idx, month, layers, margin,
                   max_drawdown, peak_total_value, total_portfolio_value,
                   margin_draw, series, aggregate, runner>>

\* 4. Dividend income; calculate_monthly_yield may raise.
DividendIncome ==
    /\ pc = "dividend"
    /\ IF YieldRaises(config, month)
       THEN /\ pc' = ZeroDivisionError
            /\ UNCHANGED <<current_yield, monthly_dividend,
                           total_dividends_collected>>
       ELSE /\ current_yield' = calculate_monthly_yield(config, month)
            /\ monthly_dividend' = Dividend(income_portfolio, current_yield')
            /\ total_dividends_collected' =
                 total_dividends_collected + monthly_dividend'
            /\ pc' = "margin"
    /\ UNCHANGED <<engine, returned, scenario_idx, month, layers, margin,
                   max_drawdown, peak_total_value, total_portfolio_value,
                   margin_draw, series, aggregate, runner>>

\* 5. Margin draw and debt management.
MarginDraw ==
    /\ pc = "margin"
    /\ margin_draw' = get_margin_draw(config, month)
    /\ margin_balance' = DrawOrPaydown(margin_balance, monthly_dividend,
                                       margin_draw')
    /\ pc' = "interest"
    /\ UNCHANGED <<engine, returned, scenario_idx, month, layers,
                   margin_call_triggered, backstop_used, backstop_amount_used,
                   tracking, total_portfolio_value, current_yield,
                   monthly_dividend, series, aggregate, runner>>

\* 6. Margin interest.
Interest ==
    /\ pc = "interest"
    /\ margin_balance' = AccrueInterest(config, margin_balance)
    /\ pc' = "safety"
    /\ UNCHANGED <<engine, returned, scenario_idx, month, layers,
                   margin_call_triggered, backstop_used, backstop_amount_used,
                   tracking, month_locals, series, aggregate, runner>>

\* Safety that flags the margin call without flagging the backstop.
Safety_CallFlagOnly ==
    /\ pc = "safety"
    /\ IF ~RatioGuard(margin_balance)
       THEN pc' = "drawdown" /\ UNCHANGED margin
       ELSE IF Raises(margin_balance)
       THEN pc' = ZeroDivisionError /\ UNCHANGED margin
       ELSE /\ pc' = "drawdown"
            /\ IF MarginCall(config, total_portfolio_value, margin_balance)
               THEN /\ margin_call_triggered' = TRUE
                    /\ backstop_used' = backstop_used
                    /\ margin_balance' =
                         margin_balance - Injection(config, margin_balance)
                    /\ backstop_amount_used' =
                         backstop_amount_used + Injection(config, margin_balance)
               ELSE UNCHANGED margin
    /\ UNCHANGED <<engine, returned, scenario_idx, month, layers, tracking,
                   month_locals, series, aggregate, runner>>

\* 7. Safety thresholds: the ratio, the margin call and the injection.
Safety ==
    /\ pc = "safety"
    /\ IF ~RatioGuard(margin_balance)
       THEN pc' = "drawdown" /\ UNCHANGED margin
       ELSE IF Raises(margin_balance)
       THEN pc' = ZeroDivisionError /\ UNCHANGED margin
       ELSE /\ pc' = "drawdown"
            /\ IF MarginCall(config, total_portfolio_value, margin_balance)
               THEN /\ margin_call_triggered' = TRUE
                    /\ backstop_used' = TRUE
                    /\ margin_balance' =
                         margin_balance - Injection(config, margin_balance)
                    /\ backstop_amount_used' =
                         backstop_amount_used + Injection(config, margin_balance)
               ELSE UNCHANGED margin
    /\ UNCHANGED <<engine, returned, scenario_idx, month, layers, tracking,
                   month_locals, series, aggregate, runner>>

\* Drawdown that keeps the month's total as the peak of the next month.
Drawdown_LastAsPeak ==
    /\ pc = "drawdown"
    /\ IF ~DrawdownGuard(peak_total_value)
       THEN /\ pc' = "record"
            /\ max_drawdown' = max_drawdown
            /\ peak_total_value' = total_portfolio_value
       ELSE LET current_drawdown ==
                    [num |-> total_portfolio_value - peak_total_value,
                     den |-> peak_total_value]
            IN  /\ max_drawdown' = IF FracLess(current_drawdown, max_drawdown)
                                   THEN current_drawdown ELSE max_drawdown
                /\ peak_total_value' = total_portfolio_value
                /\ pc' = "record"
    /\ UNCHANGED <<engine, returned, scenario_idx, month, layers, margin,
                   total_dividends_collected, month_locals, series,
                   aggregate, runner>>

\* 8. Drawdown tracking: against the peak of the earlier months, then the
\* peak is raised.
Drawdown ==
    /\ pc = "drawdown"
    /\ IF ~DrawdownGuard(peak_total_value)
       THEN /\ pc' = "record"
            /\ max_drawdown' = max_drawdown
            /\ peak_total_value' = Max(peak_total_value, total_portfolio_value)
       ELSE IF Raises(peak_total_value)
       THEN pc' = ZeroDivisionError /\ UNCHANGED <<max_drawdown, peak_total_value>>
       ELSE LET current_drawdown ==
                    [num |-> total_portfolio_value - peak_total_value,
                     den |-> peak_total_value]
            IN  /\ max_drawdown' = IF FracLess(current_drawdown, max_drawdown)
                                   THEN current_drawdown ELSE max_drawdown
                /\ peak_total_value' =
                     Max(peak_total_value, total_portfolio_value)
                /\ pc' = "record"
    /\ UNCHANGED <<engine, returned, scenario_idx, month, layers, margin,
                   total_dividends_collected, month_locals, series, aggregate, runner>>

\* 9. Track monthly values; the loop goes to the next month or ends.
Record ==
    /\ pc = "record"
    /\ monthly_portfolio' = Append(monthly_portfolio, total_portfolio_value)
    /\ monthly_layer1' = Append(monthly_layer1, layer1_portfolio)
    /\ monthly_layer2' = Append(monthly_layer2, income_portfolio)
    /\ monthly_margin' = Append(monthly_margin, margin_balance)
    /\ monthly_dividends' = Append(monthly_dividends, monthly_dividend)
    /\ monthly_googl' = Append(monthly_googl, googl_position)
    /\ monthly_hedge' = Append(monthly_hedge, hedge_position)
    /\ IF month < Months(config)
       THEN month' = month + 1 /\ pc' = "deploy"
       ELSE month' = month /\ pc' = "final"
    /\ UNCHANGED <<engine, returned, scenario_idx, layers, margin, tracking,
                   month_locals, aggregate, runner>>

\* The record run_single_scenario returns.
ScenarioResult ==
    LET final_portfolio_value ==
            layer1_portfolio + income_portfolio + googl_position + hedge_position
    IN  [ final_portfolio_value     |-> final_portfolio_value,
          final_layer1_value        |-> layer1_portfolio,
          final_income_portfolio    |-> income_portfolio,
          final_googl_value         |-> googl_position,
          final_hedge_value         |-> hedge_position,
          final_margin_balance      |-> margin_balance,
          final_margin_ratio        |->
              FinalMarginRatio(final_portfolio_value, margin_balance),
          final_annual_dividend     |-> Last(monthly_dividends) * 12,
          max_drawdown              |-> max_drawdown,
          margin_call_triggered     |-> margin_call_triggered,
          backstop_used             |-> backstop_used,
          backstop_amount_used      |-> backstop_amount_used,
          break_even_month          |-> BreakEvenScan(config, monthly_dividends, 1),
          margin_payoff_month       |-> PayoffScan(monthly_margin, 1),
          total_dividends_collected |-> total_dividends_collected,
          monthly_portfolio         |-> monthly_portfolio,
          monthly_layer1            |-> monthly_layer1,
          monthly_layer2            |-> monthly_layer2,
          monthly_margin            |-> monthly_margin,
          monthly_dividends         |-> monthly_dividends,
          monthly_googl             |-> monthly_googl,
          monthly_hedge             |-> monthly_hedge ]

\* Final metrics: the record is returned to the caller and the locals die.
Final ==
    /\ pc = "final"
    /\ results' = Append(results, ScenarioResult)
    /\ pc' = "idle"
    /\ scenario_idx' = 0
    /\ month' = 0
    /\ layer1_portfolio' = 0 /\ income_portfolio' = 0
    /\ googl_position' = 0 /\ hedge_position' = 0
    /\ margin_balance' = 0
    /\ total_dividends_collected' = 0
    /\ max_drawdown' = [num |-> 0, den |-> 1]
    /\ peak_total_value' = 0
    /\ margin_call_triggered' = FALSE /\ backstop_used' = FALSE
    /\ backstop_amount_used' = 0
    /\ total_portfolio_value' = 0
    /\ current_yield' = [num |-> 0, den |-> 1]
    /\ monthly_dividend' = 0
    /\ margin_draw' = 0
    /\ monthly_portfolio' = << >> /\ monthly_layer1' = << >>
    /\ monthly_layer2' = << >> /\ monthly_margin' = << >>
    /\ monthly_dividends' = << >> /\ monthly_googl' = << >>
    /\ monthly_hedge' = << >>
    /\ UNCHANGED <<engine, called, aggregate, runner>>

Next ==
    \/ SetAttr
    \/ Call
    \/ Deploy
    \/ ApplyReturns
    \/ Total
    \/ DividendIncome
    \/ MarginDraw
    \/ Interest
    \/ Safety
    \/ Drawdown
    \/ Record
    \/ Final

Spec == Init /\ [][Next]_vars

\* The paths of the runs that are repeated.
RerunPaths ==
    { <<Flat, Flat, 0>>, <<Boom, Bear, 12>>, <<Jackpot, Crash, 1>>,
      <<Crash, Boom, 1>> }

\* The same engine and arrays, run_single_scenario called MaxCalls times.
InitRerun == Constructed(RerunPaths, MaxCalls)

SpecRerun == InitRerun /\ [][Next]_vars

-----------------------------------------------------------------------------
(* Properties of the scenario walk. *)

\* The four layer series of a run in progress or of a returned record.
LayerSeries(r) ==
    <<r.monthly_layer1, r.monthly_layer2, r.monthly_googl, r.monthly_hedge>>

InProgress ==
    [monthly_layer1 |-> monthly_layer1, monthly_layer2 |-> monthly_layer2,
     monthly_googl |-> monthly_googl, monthly_hedge |-> monthly_hedge]

AllNonNegative(seq) == \A i \in 1..Len(seq) : seq[i] >= 0

\* The return applied to the growth layer in month m of the current run.
Layer1Return(m) == scenario_returns.layer1_returns[scenario_idx][m - 1]

\* C1: every recorded end-of-month value of the growth, income, GOOGL and
\* hedge layers is >= 0, in the run in progress and in every returned record,
\* whatever the returns (returns below -100% included).
C1_LayersNonNegative ==
    /\ \A k \in 1..4 : AllNonNegative(LayerSeries(InProgress)[k])
    /\ \A n \in 1..Len(results) :
         \A k \in 1..4 : AllNonNegative(LayerSeries(results[n])[k])

\* C1 witness: a month whose growth return is below -100% has been recorded,
\* and all four layers were recorded at 0 that month.
C1_Witness ==
    \E m \in 1..Len(monthly_layer1) :
        /\ Layer1Return(m) < 0 - 100
        /\ \A k \in 1..4 : LayerSeries(InProgress)[k][m] = 0

\* C2: margin_balance >= 0 after every step of every month (the variable is
\* read at every position of the walk), and in every recorded balance.
C2_MarginNonNegative ==
    /\ margin_balance >= 0
    /\ AllNonNegative(monthly_margin)
    /\ \A n \in 1..Len(results) : AllNonNegative(results[n].monthly_margin)

\* C2 witness: the paydown of month 1 was larger than the starting balance
\* and left exactly 0.
C2_Witness ==
    /\ pc = "interest" /\ month = 1
    /\ monthly_dividend - get_margin_draw(config, 1) > 322200
    /\ margin_balance = 0

\* C3: a configuration that violates the invariants is rejected before any
\* scenario is simulated: no run is ever in progress or finished on an engine
\* whose configuration is invalid.
C3_InvalidConfigNeverSimulated ==
    (pc # "idle" \/ results # << >>) => ValidConfig(config)

\* C4: two calls of run_single_scenario with the same configuration, the same
\* arrays and the same scenario index return identical records.
C4_Deterministic ==
    \A i, j \in 1..Len(results) :
        called[i] = called[j] => results[i] = results[j]

\* C4 witness: the same scenario was run twice, through a margin call.
C4_Witness ==
    /\ Len(results) >= 2
    /\ called[1] = called[2]
    /\ results[1] = results[2]
    /\ results[1].margin_call_triggered

\* C5: with yield_degradation_rate > 0 and active management disabled the
\* monthly yield is strictly decreasing over the months 1..28, so the yield of
\* month 28 is below that of month 1; the yield the walk used this month is
\* below the one of month 1.
C5_YieldStrictlyDecreasing ==
    (config.yield_degradation_rate > 0 /\ ~config.active_management) =>
        /\ \A m \in 1..(Months(config) - 1) :
             FracLess(calculate_monthly_yield(config, m + 1),
                      calculate_monthly_yield(config, m))
        /\ FracLess(calculate_monthly_yield(config, Months(config)),
                    calculate_monthly_yield(config, 1))
        /\ (pc = "margin" /\ month > 1) =>
             FracLess(current_yield, calculate_monthly_yield(config, 1))

\* C5 witness: the walk computed the yield of month 28 with active management
\* disabled and a positive degradation rate.
C5_Witness ==
    /\ config.yield_degradation_rate > 0 /\ ~config.active_management
    /\ pc = "margin" /\ month = 28
    /\ current_yield = calculate_monthly_yield(config, 28)
    /\ monthly_dividend > 0

\* C6: the safety check of a month with margin_balance > 0 and
\* total_portfolio_value / margin_balance below the configured minimum sets
\* the margin-call flag and injects exactly
\* min(business_income_backstop, margin_balance), taken off the balance and
\* added to backstop_amount_used; any other month's safety check leaves the
\* balance, the amount used and the flag as they were.
C6_MarginCallInjection ==
    [][pc = "safety" =>
         IF /\ margin_balance > 0
            /\ total_portfolio_value
                 < config.min_portfolio_margin_ratio * margin_balance
         THEN LET injected == Min(config.business_income_backstop,
                                  margin_balance)
              IN  /\ margin_call_triggered'
                  /\ margin_balance' = margin_balance - injected
                  /\ backstop_amount_used' = backstop_amount_used + injected
         ELSE /\ margin_balance' = margin_balance
              /\ backstop_amount_used' = backstop_amount_used
              /\ margin_call_triggered' = margin_call_triggered]_vars

\* C6 witness: a first margin call whose injection was capped by the
\* backstop, so that debt remains.
C6_Witness ==
    /\ pc = "drawdown"
    /\ margin_call_triggered
    /\ backstop_amount_used = config.business_income_backstop
    /\ margin_balance > 0

\* The months of a record whose dividend covers the scheduled draw.
CoveredMonths(r) ==
    { m \in 1..Len(r.monthly_dividends) :
        r.monthly_dividends[m] >= get_margin_draw(config, m) }

\* C7: break_even_month is the lowest month whose recorded dividend is >= the
\* scheduled draw of that month, and None exactly when there is no such month.
C7_BreakEvenIsFirstCoveredMonth ==
    \A n \in 1..Len(results) :
        LET covered == CoveredMonths(results[n])
        IN  IF covered = {}
            THEN results[n].break_even_month = None
            ELSE /\ results[n].break_even_month # None
                 /\ results[n].break_even_month[1] \in covered
                 /\ \A m \in covered : results[n].break_even_month[1] <= m

\* C7 witness: a record whose break-even month has a dividend exactly equal
\* to the draw of that month.
C7_Witness ==
    \E n \in 1..Len(results) :
        /\ results[n].break_even_month # None
        /\ LET b == results[n].break_even_month[1]
           IN  results[n].monthly_dividends[b] = get_margin_draw(config, b)

\* C10: under the default configuration no run ends in a ZeroDivisionError:
\* the ratio is formed only for margin_balance > 0, the drawdown only for a
\* peak > 0, the final ratio only for a final balance > 0, and the yield
\* formula's divisors (target_yield, simulation_months) are not 0.
C10_NoDivisionByZero ==
    config = DefaultConfig =>
        /\ pc # ZeroDivisionError
        /\ \A m \in 1..Months(config) : ~YieldRaises(config, m)
        /\ \A n \in 1..Len(results) :
             results[n].final_margin_ratio.inf
               = (results[n].final_margin_balance = 0)

\* C10 witness: under the default configuration month 1 went through the
\* safety check with a balance of 0 (no ratio was formed, no call made) and
\* through the drawdown step with a peak of 0.
C10_Witness ==
    /\ config = DefaultConfig
    /\ pc = "record" /\ month = 1
    /\ margin_balance = 0 /\ ~margin_call_triggered
    /\ peak_total_value = total_portfolio_value
    /\ max_drawdown = [num |-> 0, den |-> 1]

\* x = y for fractions with den > 0.
FracEq(x, y) == ~FracLess(x, y) /\ ~FracLess(y, x)

\* end_yield = start_yield * (1 - self.yield_degradation_rate), in basis
\* points.
EndYield(cfg) ==
    [num |-> cfg.target_yield * (100 - cfg.yield_degradation_rate),
     den |-> 100]

\* The point at month m of the straight line through (1, start yield) and
\* (simulation_months, end yield).
OnLineToEnd(cfg, m) ==
    [num |-> cfg.target_yield
               * (100 * (cfg.simulation_months - 1)
                    - cfg.yield_degradation_rate * (m - 1)),
     den |-> 100 * (cfg.simulation_months - 1)]

\* The active-management rule changes the yield of month m.
ManagementTriggers(cfg, m) ==
    ManagementApplies(cfg, m) /\ DeclineTriggers(cfg, BaseYield(cfg, m))

\* C13: in a month in which active management does not trigger, the yield the
\* walk uses lies on the straight line between the start yield at month 1 and
\* the end yield start * (1 - yield_degradation_rate) at month 28; in month
\* 28 it equals that end yield.
C13_EndYieldAtLastMonth ==
    (pc = "margin" /\ ~ManagementTriggers(config, month)) =>
        /\ FracEq(current_yield, OnLineToEnd(config, month))
        /\ month = Months(config) => FracEq(current_yield, EndYield(config))

\* total_portfolio_value / balance >= min_portfolio_margin_ratio, for a
\* balance > 0.
RatioKept(cfg, total, balance) ==
    total >= cfg.min_portfolio_margin_ratio * balance

\* C14 as claimed: at the end of every simulated month, after the safety
\* check and its injection, the margin balance is 0 or
\* total_portfolio_value / margin_balance >= min_portfolio_margin_ratio.
C14_RatioEnforced ==
    pc = "record" =>
        (margin_balance = 0
           \/ RatioKept(config, total_portfolio_value, margin_balance))

\* C14 amended: the safety check of a month leaves the margin balance at 0,
\* or the ratio at or above the minimum, or it has flagged a margin call and
\* injected the whole business_income_backstop, the cap, which need not
\* bring the ratio back to the minimum.
C14_RatioOrCappedInjection ==
    [][pc = "safety" =>
         \/ margin_balance' = 0
         \/ RatioKept(config, total_portfolio_value, margin_balance')
         \/ /\ margin_call_triggered'
            /\ margin_balance' = margin_balance - config.business_income_backstop
            /\ backstop_amount_used' =
                 backstop_amount_used + config.business_income_backstop]_vars

\* C14 witness: a month ends after a capped injection with debt left and the
\* ratio still below the minimum.
C14_Witness ==
    /\ pc = "record"
    /\ margin_call_triggered
    /\ backstop_amount_used >= config.business_income_backstop
    /\ margin_balance > 0
    /\ ~RatioKept(config, total_portfolio_value, margin_balance)

\* The months from month 2 on whose recorded end-of-month balance is 0.
PaidOffMonths(r) ==
    { m \in 2..Len(r.monthly_margin) : r.monthly_margin[m] = 0 }

\* C15: margin_payoff_month is the lowest month m >= 2 whose recorded margin
\* balance is exactly 0, and None when there is no such month; a zero balance
\* at the end of month 1 is not reported.
C15_PayoffIsFirstZeroAfterMonthOne ==
    \A n \in 1..Len(results) :
        LET paid == PaidOffMonths(results[n])
        IN  IF paid = {}
            THEN results[n].margin_payoff_month = None
            ELSE /\ results[n].margin_payoff_month # None
                 /\ results[n].margin_payoff_month[1] \in paid
                 /\ \A m \in paid : results[n].margin_payoff_month[1] <= m

\* C15 witness: a record whose balance was 0 at the end of month 1 and above
\* 0 in month 2, and whose payoff month is not month 1.
C15_Witness ==
    \E n \in 1..Len(results) :
        /\ results[n].monthly_margin[1] = 0
        /\ results[n].monthly_margin[2] > 0
        /\ results[n].margin_payoff_month # Some(1)

\* The steps of one month, in the order of the loop body.
StepOrder ==
    <<"deploy", "returns", "total", "dividend", "margin", "interest",
      "safety", "drawdown", "record">>

\* The position of a step in the month.
StepIndex(step) == CHOOSE i \in 1..Len(StepOrder) : StepOrder[i] = step

InMonth(step) == \E i \in 1..Len(StepOrder) : StepOrder[i] = step

\* The steps of the month that come after step `after`.
Past(after) ==
    { StepOrder[i] : i \in (StepIndex(after) + 1)..Len(StepOrder) }

\* The margin balance a month starts with: the starting debt in month 1, the
\* balance recorded the month before afterwards.
BalanceBefore == IF month = 1 THEN 322200 ELSE Last(monthly_margin)

\* C17: within each month the steps run in the order deploy, returns, total,
\* dividend, margin draw/paydown, interest, safety, drawdown, record, and the
\* next month starts only after record; the total the safety check tests is
\* the sum of the four layer values after that month's deployment and
\* returns, against the balance left by that month's draw/paydown and
\* interest; the dividend of a month is the yield applied to the income layer
\* value after that month's returns (the value the month records).
C17_StepOrder ==
    /\ [][(InMonth(pc) /\ pc' # pc) =>
            IF pc = "record"
            THEN \/ pc' = "deploy" /\ month' = month + 1
                 \/ pc' = "final" /\ month' = month
            ELSE /\ pc' \in {StepOrder[StepIndex(pc) + 1], ZeroDivisionError}
                 /\ month' = month]_vars
    /\ [](pc \in Past("total") =>
            total_portfolio_value
              = layer1_portfolio + income_portfolio + googl_position
                  + hedge_position)
    /\ [](pc \in Past("dividend") =>
            monthly_dividend
              = Dividend(income_portfolio,
                         calculate_monthly_yield(config, month)))
    /\ [](pc = "safety" =>
            margin_balance
              = AccrueInterest(config,
                    DrawOrPaydown(BalanceBefore, monthly_dividend,
                                  get_margin_draw(config, month))))
    /\ [][pc = "safety" =>
            (margin_call_triggered' # margin_call_triggered =>
               ~RatioKept(config,
                          layer1_portfolio + income_portfolio
                            + googl_position + hedge_position,
                          margin_balance))]_vars
    /\ [](\A n \in 1..Len(results) :
            \A m \in 1..Len(results[n].monthly_dividends) :
                /\ results[n].monthly_portfolio[m]
                     = results[n].monthly_layer1[m] + results[n].monthly_layer2[m]
                         + results[n].monthly_googl[m] + results[n].monthly_hedge[m]
                /\ results[n].monthly_dividends[m]
                     = Dividend(results[n].monthly_layer2[m],
                                calculate_monthly_yield(config, m)))

\* C17 witness: the safety check of a month after the first made its first
\* margin call on a total that the month's returns had changed.
C17_Witness ==
    /\ pc = "drawdown" /\ month > 1
    /\ margin_call_triggered
    /\ backstop_amount_used <= config.business_income_backstop
    /\ total_portfolio_value # Last(monthly_portfolio)
    /\ total_portfolio_value
         # Last(monthly_portfolio) + config.layer2_deployment
             + config.googl_monthly_diversion + config.layer3_deployment
    /\ monthly_dividend > 0

\* C18: the deploy step of every month adds 11517, 1000 and 800 dollars to
\* the income, GOOGL and hedge layers, before the month's returns, and leaves
\* the growth layer alone; within a run the growth layer changes only in the
\* returns step, by its own return; once it is 0 it stays 0 for the rest of
\* the run, in the walk and in the recorded series.
C18_GrowthLayerClosed ==
    /\ [][pc = "deploy" =>
            /\ income_portfolio' = income_portfolio + 1151700
            /\ googl_position' = googl_position + 100000
            /\ hedge_position' = hedge_position + 80000
            /\ layer1_portfolio' = layer1_portfolio
            /\ pc' = "returns"]_vars
    /\ [][(InMonth(pc) /\ layer1_portfolio' # layer1_portfolio) =>
            /\ pc = "returns"
            /\ layer1_portfolio'
                 = Max(0, Scale(layer1_portfolio,
                                100 + Layer1Return(month), 100))]_vars
    /\ [][(InMonth(pc) /\ layer1_portfolio = 0) => layer1_portfolio' = 0]_vars
    /\ [](\A n \in 1..Len(results) :
            \A m \in 1..Len(results[n].monthly_layer1) :
                results[n].monthly_layer1[m] = 0 =>
                    \A k \in m..Len(results[n].monthly_layer1) :
                        results[n].monthly_layer1[k] = 0)

\* C18 witness: the growth layer was wiped out in month 1 and is still 0 at
\* the end of month 28, after months of positive growth returns, while the
\* other layers were refilled by the deployments.
C18_Witness ==
    /\ pc = "record" /\ month = 28
    /\ monthly_layer1[1] = 0
    /\ layer1_portfolio = 0
    /\ Layer1Return(28) > 0
    /\ income_portfolio > 0 /\ googl_position > 0 /\ hedge_position > 0

\* C19: the margin step of a month with dividend d, scheduled draw w and
\* balance b leaves b + (w - d) if d < w, max(0, b - (d - w)) if d > w and b
\* if d = w; the balance rises only in a month whose dividend is below the
\* draw and never rises in a month whose dividend covers it.
C19_DrawOrPaydown ==
    [][pc = "margin" =>
         LET d == monthly_dividend
             w == get_margin_draw(config, month)
             b == margin_balance
         IN  /\ d < w => margin_balance' = b + (w - d)
             /\ d > w => margin_balance' = IF b - (d - w) > 0
                                            THEN b - (d - w) ELSE 0
             /\ d = w => margin_balance' = b
             /\ d >= w => margin_balance' <= b
             /\ d < w => margin_balance' > b]_vars

\* C19 witness: a month whose dividend exceeded the draw paid part of the
\* debt down.
C19_Witness ==
    /\ pc = "interest"
    /\ monthly_dividend > margin_draw
    /\ margin_balance > 0
    /\ margin_balance = BalanceBefore - (monthly_dividend - margin_draw)

\* A month whose dividend equals the draw left the debt as it was.
C19_EqualMonth ==
    /\ pc = "interest"
    /\ monthly_dividend = margin_draw
    /\ margin_balance > 0
    /\ margin_balance = BalanceBefore

\* C20: the interest step turns a balance b > 0 into b * (1 + margin_rate /
\* 12) (margin_rate per 100000, the interest rounded down to the cent); a
\* balance of 0 accrues nothing and is still 0 after the interest step and
\* after the safety check of that month, which then makes no margin call.
C20_InterestOnPositiveBalance ==
    /\ [][pc = "interest" =>
            margin_balance'
              = IF margin_balance > 0
                THEN margin_balance
                       + Scale(margin_balance, config.margin_rate, 12 * 100000)
                ELSE 0]_vars
    /\ [][(pc \in {"interest", "safety"} /\ margin_balance = 0) =>
            /\ margin_balance' = 0
            /\ margin_call_triggered' = margin_call_triggered
            /\ backstop_amount_used' = backstop_amount_used
            /\ pc' # ZeroDivisionError]_vars

\* C20 witness: a debt that had accrued interest in earlier months was paid
\* off this month, and the balance of 0 went through the interest step and
\* the safety check.
C20_Witness ==
    /\ pc = "drawdown" /\ month > 2
    /\ margin_balance = 0
    /\ BalanceBefore > 0
    /\ monthly_margin[1] > 322200
    /\ ~margin_call_triggered

\* P_m: the highest recorded total of the months 1..m.
RunningPeak(totals, m) ==
    CHOOSE p \in { totals[k] : k \in 1..m } :
        \A k \in 1..m : totals[k] <= p

\* (total_m - P_m) / P_m for the months of a record with P_m > 0, together
\* with 0, the value of a month that sets the peak; a month with P_m = 0 (no
\* value was ever held) has no drawdown.
DrawdownsFromPeak(totals) ==
    { [num |-> totals[m] - RunningPeak(totals, m),
       den |-> RunningPeak(totals, m)] :
        m \in { k \in 1..Len(totals) : RunningPeak(totals, k) > 0 } }
    \cup { [num |-> 0, den |-> 1] }

\* C21: the max_drawdown of a record is the minimum over the months of
\* (total_m - P_m) / P_m with P_m the running peak including month m,
\* although the walk compares each total with the peak of the months before
\* and raises the peak afterwards; it lies in [-1, 0].
C21_DrawdownFromRunningPeak ==
    \A n \in 1..Len(results) :
        LET reported == results[n].max_drawdown
            all == DrawdownsFromPeak(results[n].monthly_portfolio)
        IN  /\ \E d \in all : FracEq(reported, d)
            /\ \A d \in all : ~FracLess(d, reported)
            /\ reported.den > 0
            /\ reported.num <= 0
            /\ 0 - reported.den <= reported.num

\* C21 witness: a record with a drawdown below 0, in which a later month set
\* a new peak above the peak the drawdown was measured from.
C21_Witness ==
    \E n \in 1..Len(results) :
        LET totals == results[n].monthly_portfolio
        IN  /\ results[n].max_drawdown.num < 0
            /\ \E m \in 2..Len(totals) :
                 /\ totals[m] < RunningPeak(totals, m - 1)
                 /\ \E k \in (m + 1)..Len(totals) :
                      totals[k] > RunningPeak(totals, k - 1)

\* C25: the configured safety constraint max_margin_balance bounds the margin
\* debt: in every scenario and every month the recorded margin balance is at
\* most max_margin_balance.
C25_MarginWithinMaximum ==
    /\ \A m \in 1..Len(monthly_margin) :
          monthly_margin[m] <= config.max_margin_balance
    /\ \A n \in 1..Len(results) :
          \A m \in 1..Len(results[n].monthly_margin) :
            results[n].monthly_margin[m] <= config.max_margin_balance

\* A scenario walk is between its entry and its return.
Walking(at) == InMonth(at) \/ at = "final"

\* The months of the walk whose safety check has run.
MonthsChecked == IF pc \in Past("safety") \/ pc = "final" THEN month ELSE month - 1

\* C26: throughout a scenario walk margin_call_triggered and backstop_used are
\* equal and, once True, are not reset; backstop_amount_used is > 0 exactly
\* when backstop_used is True, never decreases, and after m months is at most
\* m x business_income_backstop.
C26_BackstopFlags ==
    /\ [](/\ margin_call_triggered = backstop_used
          /\ (backstop_amount_used > 0) <=> backstop_used
          /\ Walking(pc) =>
               backstop_amount_used
                 <= MonthsChecked * config.business_income_backstop
          /\ \A n \in 1..Len(results) :
               /\ results[n].margin_call_triggered = results[n].backstop_used
               /\ (results[n].backstop_amount_used > 0)
                    <=> results[n].backstop_used
               /\ results[n].backstop_amount_used
                    <= Len(results[n].monthly_margin)
                         * config.business_income_backstop)
    /\ [][Walking(pc) /\ Walking(pc') =>
            /\ margin_call_triggered => margin_call_triggered'
            /\ backstop_used => backstop_used'
            /\ backstop_amount_used' >= backstop_amount_used]_vars

\* A walk ends after the backstop was used in more than one month.
C26_Witness ==
    /\ pc = "final"
    /\ margin_call_triggered /\ backstop_used
    /\ backstop_amount_used > config.business_income_backstop

\* The safety check of the month flags a margin call.
CallFires ==
    /\ pc = "safety"
    /\ margin_balance > 0
    /\ total_portfolio_value < config.min_portfolio_margin_ratio * margin_balance

\* C29: when a margin call fires on a post-interest balance of at most
\* business_income_backstop, the injection is the whole balance and the
\* balance recorded for the month is exactly 0; a record can report such a
\* month as margin_payoff_month and end margin-free with no dividend ever
\* collected (C29_Witness).
C29_BackstopClearsSmallBalance ==
    /\ [][(CallFires /\ margin_balance <= config.business_income_backstop) =>
            /\ pc' = "drawdown"
            /\ margin_call_triggered' /\ backstop_used'
            /\ backstop_amount_used' = backstop_amount_used + margin_balance
            /\ margin_balance' = 0]_vars
    /\ [][pc = "drawdown" => margin_balance' = margin_balance]_vars
    /\ [][pc = "record" =>
            monthly_margin' = Append(monthly_margin, margin_balance)]_vars
    /\ [](\A n \in 1..Len(results) :
            LET r == results[n]
            IN  /\ (\E m \in 2..Len(r.monthly_margin) : r.monthly_margin[m] = 0)
                     => r.margin_payoff_month # None
                /\ r.final_margin_balance = Last(r.monthly_margin))

\* A record whose debt was cleared by the backstop alone: no dividend was
\* collected, month 2 is the payoff month and the scenario ends margin-free.
C29_Witness ==
    \E n \in 1..Len(results) :
        /\ results[n].total_dividends_collected = 0
        /\ results[n].backstop_used
        /\ results[n].backstop_amount_used > 0
        /\ results[n].margin_payoff_month = Some(2)
        /\ results[n].final_margin_balance = 0

\* The dividend of the month that is computed and not yet recorded.
PendingDividend == IF pc \in Past("dividend") THEN monthly_dividend ELSE 0

\* The seven monthly series of a record.
MonthlySeries(r) ==
    <<r.monthly_portfolio, r.monthly_layer1, r.monthly_layer2, r.monthly_margin,
      r.monthly_dividends, r.monthly_googl, r.monthly_hedge>>

\* C30: every monthly dividend is >= 0, so total_dividends_collected never
\* decreases and is the sum of the monthly dividends so far, at month 28 the
\* sum of the 28 recorded ones; every recorded series has exactly 28 entries
\* and final_annual_dividend is 12 x the month-28 dividend.
C30_DividendsAccumulate ==
    /\ [](/\ AllNonNegative(monthly_dividends)
          /\ Walking(pc) =>
               /\ PendingDividend >= 0
               /\ total_dividends_collected
                    = SumTo(monthly_dividends, Len(monthly_dividends))
                        + PendingDividend
          /\ \A n \in 1..Len(results) :
               LET r == results[n]
               IN  /\ AllNonNegative(r.monthly_dividends)
                   /\ \A k \in 1..Len(MonthlySeries(r)) :
                        Len(MonthlySeries(r)[k]) = 28
                   /\ r.total_dividends_collected
                        = SumTo(r.monthly_dividends, 28)
                   /\ r.final_annual_dividend = 12 * r.monthly_dividends[28])
    /\ [][Walking(pc) /\ Walking(pc') =>
            total_dividends_collected' >= total_dividends_collected]_vars

\* A record whose dividends were positive in month 1 and 0 in month 28.
C30_Witness ==
    \E n \in 1..Len(results) :
        /\ results[n].monthly_dividends[1] > 0
        /\ results[n].monthly_dividends[28] = 0
        /\ results[n].final_annual_dividend = 0
        /\ results[n].total_dividends_collected > 0

-----------------------------------------------------------------------------
(* analyze_results(df): the aggregator.  A statistic is a fraction           *)
(* [num, den]; the blocks for the single layers, the margin ratio and the   *)
(* drawdown apply the same Stats to further columns and are left out.       *)

\* df[name], one value per record.
Column(frame, name) == [i \in 1..Len(frame) |-> frame[i][name]]

\* (condition).sum(): the number of True among the first n flags.
RECURSIVE CountTrue(_, _)
CountTrue(flags, n) ==
    IF n = 0 THEN 0
    ELSE (IF flags[n] THEN 1 ELSE 0) + CountTrue(flags, n - 1)

\* value >= threshold with the threshold above the value excluded.
Reaches_Strict(value, threshold) == value > threshold

\* df['final_annual_dividend'] >= threshold, for one record.
Reaches(value, threshold) == value >= threshold

\* count / len(df)
Proportion(count, n) == [num |-> count, den |-> n]

\* df[df[name].notna()][name]: the present values, in order.
RECURSIVE NotNa(_, _)
NotNa(col, i) ==
    IF i > Len(col) THEN << >>
    ELSE IF col[i] # None THEN <<col[i][1]>> \o NotNa(col, i + 1)
    ELSE NotNa(col, i + 1)

\* df[df['backstop_used']]['backstop_amount_used']
RECURSIVE Where(_, _, _)
Where(flags, col, i) ==
    IF i > Len(col) THEN << >>
    ELSE IF flags[i] THEN <<col[i]>> \o Where(flags, col, i + 1)
    ELSE Where(flags, col, i + 1)

RECURSIVE Insert(_, _)
Insert(sorted, x) ==
    IF sorted = << >> THEN <<x>>
    ELSE IF x <= Head(sorted) THEN <<x>> \o sorted
    ELSE <<Head(sorted)>> \o Insert(Tail(sorted), x)

RECURSIVE Sorted(_)
Sorted(seq) ==
    IF seq = << >> THEN << >> ELSE Insert(Sorted(Tail(seq)), Head(seq))

\* Series.quantile(pct / 100) of a non-empty series, by linear interpolation
\* between the order statistics around position (n - 1) * pct / 100.
Quantile(seq, pct) ==
    LET data == Sorted(seq)
        pos == (Len(data) - 1) * pct
        lo == pos \div 100
        part == pos % 100
    IN  [num |-> IF part = 0 THEN data[lo + 1] * 100
                 ELSE data[lo + 1] * 100
                        + part * (data[lo + 2] - data[lo + 1]),
         den |-> 100]

\* Series.quantile(pct / 100) of a non-empty series of amounts of money: the
\* interpolated amount, rounded down to the cent.
MoneyQuantile(seq, pct) ==
    LET data == Sorted(seq)
        pos == (Len(data) - 1) * pct
        lo == pos \div 100
        part == pos % 100
    IN  [num |-> IF part = 0 THEN data[lo + 1]
                 ELSE data[lo + 1]
                        + Scale(data[lo + 2] - data[lo + 1], part, 100),
         den |-> 1]

\* Series.mean() of a non-empty series.
Mean(seq) == [num |-> SumTo(seq, Len(seq)), den |-> Len(seq)]

\* Series.min() and Series.max() of a non-empty series.
SeriesMin(seq) == Sorted(seq)[1]

SeriesMax(seq) == Sorted(seq)[Len(seq)]

\* What pandas returns for a statistic of an empty series.
NaN == [num |-> 0, den |-> 0]

\* A timing block without the len(data) > 0 guards: the statistics of an
\* empty subset are computed, and are NaN.
TimingStats_Unguarded(col, n) ==
    LET data == NotNa(col, 1)
    IN  [probability |-> Proportion(Len(data), n),
         median |-> IF Len(data) > 0 THEN Some(Quantile(data, 50)) ELSE Some(NaN),
         mean   |-> IF Len(data) > 0 THEN Some(Mean(data)) ELSE Some(NaN),
         p5     |-> IF Len(data) > 0 THEN Some(Quantile(data, 5)) ELSE Some(NaN),
         p95    |-> IF Len(data) > 0 THEN Some(Quantile(data, 95)) ELSE Some(NaN)]

\* break_even_stats and payoff_stats: the block over the records whose
\* milestone month is present.
TimingStats(col, n) ==
    LET data == NotNa(col, 1)
    IN  [probability |-> Proportion(Len(data), n),
         median |-> IF Len(data) > 0 THEN Some(Quantile(data, 50)) ELSE None,
         mean   |-> IF Len(data) > 0 THEN Some(Mean(data)) ELSE None,
         p5     |-> IF Len(data) > 0 THEN Some(Quantile(data, 5)) ELSE None,
         p95    |-> IF Len(data) > 0 THEN Some(Quantile(data, 95)) ELSE None]

\* portfolio_stats and dividend_stats.
Stats(col) ==
    [median |-> MoneyQuantile(col, 50), mean |-> Mean(col),
     p5 |-> MoneyQuantile(col, 5), p25 |-> MoneyQuantile(col, 25),
     p75 |-> MoneyQuantile(col, 75), p95 |-> MoneyQuantile(col, 95),
     min |-> SeriesMin(col), max |-> SeriesMax(col)]

\* margin_stats.
MarginStats(col) ==
    [median |-> MoneyQuantile(col, 50), mean |-> Mean(col),
     p5 |-> MoneyQuantile(col, 5), p95 |-> MoneyQuantile(col, 95),
     max |-> SeriesMax(col)]

\* (df['final_annual_dividend'] >= threshold).sum() / len(df)
IncomeProbability(frame, threshold) ==
    Proportion(CountTrue([i \in 1..Len(frame) |->
                            Reaches(frame[i].final_annual_dividend, threshold)],
                         Len(frame)),
               Len(frame))

\* The success metrics of a non-empty frame.
SuccessMetrics(frame) ==
    LET n == Len(frame)
        amounts == Where(Column(frame, "backstop_used"),
                         Column(frame, "backstop_amount_used"), 1)
    IN  [probability_100k_income |-> IncomeProbability(frame, 10000000),
         probability_75k_income  |-> IncomeProbability(frame, 7500000),
         probability_50k_income  |-> IncomeProbability(frame, 5000000),
         probability_margin_free |->
             Proportion(CountTrue([i \in 1..n |-> frame[i].final_margin_balance = 0],
                                  n), n),
         margin_call_rate        |->
             Proportion(CountTrue(Column(frame, "margin_call_triggered"), n), n),
         backstop_usage_rate     |->
             Proportion(CountTrue(Column(frame, "backstop_used"), n), n),
         avg_backstop_amount     |->
             IF Len(amounts) > 0 THEN Mean(amounts) ELSE [num |-> 0, den |-> 1]]

\* The summary analyze_results returns for a non-empty frame.
analyze_results(frame) ==
    [model_version        |-> "3.0",
     n_scenarios          |-> Len(frame),
     success_metrics      |-> SuccessMetrics(frame),
     portfolio_value      |-> Stats(Column(frame, "final_portfolio_value")),
     dividend_income      |-> Stats(Column(frame, "final_annual_dividend")),
     margin_balance       |-> MarginStats(Column(frame, "final_margin_balance")),
     break_even_timing    |->
         TimingStats(Column(frame, "break_even_month"), Len(frame)),
     margin_payoff_timing |->
         TimingStats(Column(frame, "margin_payoff_month"), Len(frame))]

\* Scenario records with known terminal values (cents): final dividends
\* below, at and above the three income thresholds, with and without each
\* milestone month.
Row(value, dividend, balance, flag, amount, even, payoff) ==
    [final_portfolio_value |-> value, final_annual_dividend |-> dividend,
     final_margin_balance |-> balance, margin_call_triggered |-> flag,
     backstop_used |-> flag, backstop_amount_used |-> amount,
     break_even_month |-> even, margin_payoff_month |-> payoff]

SyntheticRecords ==
    { Row(6197490, 4999999, 114531, FALSE, 0, None, None),
      Row(4084070, 5000000, 0, TRUE, 4400000, Some(11), Some(19)),
      Row(10592010, 7500000, 0, FALSE, 0, Some(1), Some(2)),
      Row(3147307, 10000000, 966950, TRUE, 2200000, Some(18), None),
      Row(0, 0, 0, TRUE, 779809, None, Some(28)) }

\* A caller holds a frame of 0..MaxRecords records: pd.DataFrame(results).
InitAgg ==
    /\ config = DefaultConfig
    /\ overrides = 0
    /\ scenario_returns = ReturnArrays(<< >>, Months(DefaultConfig))
    /\ call_budget = 0
    /\ called = << >>
    /\ results = << >>
    /\ pc = "analyze"
    /\ NoLocals
    /\ NoAnalysis
    /\ NotGenerating
    /\ \E n \in 0..MaxRecords : df \in [1..n -> SyntheticRecords]
    /\ summary = None

\* analyze_results(df).  A frame built from no records has no columns, and
\* the first df['final_annual_dividend'] raises KeyError.
Analyze ==
    /\ pc = "analyze"
    /\ IF Len(df) = 0
       THEN pc' = "KeyError" /\ summary' = summary
       ELSE pc' = "analyzed" /\ summary' = Some(analyze_results(df))
    /\ UNCHANGED <<engine, returned, scenario_idx, month, layers, margin,
                   tracking, month_locals, series, df, runner>>

NextAgg == Analyze

SpecAgg == InitAgg /\ [][NextAgg]_vars

\* The number of records of the frame whose final dividend is at least v.
AtLeast(v) == Cardinality({i \in 1..Len(df) : df[i].final_annual_dividend >= v})

\* C8: for a non-empty frame of N records the three income probabilities are
\* (number of records with final_annual_dividend >= 50000 / 75000 / 100000
\* dollars) / N; a record exactly at a threshold counts.
C8_IncomeProbabilities ==
    pc = "analyzed" =>
        LET metrics == summary[1].success_metrics
        IN  /\ metrics.probability_50k_income
                 = [num |-> AtLeast(5000000), den |-> Len(df)]
            /\ metrics.probability_75k_income
                 = [num |-> AtLeast(7500000), den |-> Len(df)]
            /\ metrics.probability_100k_income
                 = [num |-> AtLeast(10000000), den |-> Len(df)]

\* C8 witness: an analyzed frame of three records, one exactly at 50000
\* dollars and one just below, with probability_50k_income = 1/3.
C8_Witness ==
    /\ pc = "analyzed" /\ Len(df) = 3
    /\ \E i \in 1..3 : df[i].final_annual_dividend = 5000000
    /\ \E i \in 1..3 : df[i].final_annual_dividend = 4999999
    /\ summary[1].success_metrics.probability_50k_income = [num |-> 1, den |-> 3]

\* The records of the frame whose milestone month is present.
Present(name) == { i \in 1..Len(df) : df[i][name] # None }

\* A timing block is computed over the records whose milestone is present:
\* its probability is their number over N; with none, median, mean, p5 and
\* p95 are None; otherwise the mean is the sum of their months over their
\* number and median, p5, p95 lie between their lowest and highest month.
TimingBlockRight(block, name) ==
    LET present == Present(name)
        k == Cardinality(present)
        months == { df[i][name][1] : i \in present }
        total == SumTo([j \in 1..Len(df) |->
                          IF j \in present THEN df[j][name][1] ELSE 0], Len(df))
    IN  /\ block.probability = [num |-> k, den |-> Len(df)]
        /\ IF k = 0
           THEN /\ block.median = None /\ block.mean = None
                /\ block.p5 = None /\ block.p95 = None
           ELSE /\ block.mean = Some([num |-> total, den |-> k])
                /\ \A q \in {block.median, block.p5, block.p95} :
                     /\ q # None
                     /\ \E lo \in months : lo * q[1].den <= q[1].num
                     /\ \E hi \in months : q[1].num <= hi * q[1].den

\* C9: for every non-empty frame analyze_results returns (no error), and its
\* break-even and margin-payoff timing blocks are computed over the records
\* whose milestone month is not None only.
C9_TimingBlocks ==
    /\ (Len(df) > 0 => pc \in {"analyze", "analyzed"})
    /\ pc = "analyzed" =>
         /\ TimingBlockRight(summary[1].break_even_timing, "break_even_month")
         /\ TimingBlockRight(summary[1].margin_payoff_timing,
                             "margin_payoff_month")

\* C9 witness: an analyzed frame in which no record reached break-even while
\* some record paid its margin off.
C9_Witness ==
    /\ pc = "analyzed"
    /\ Present("break_even_month") = {}
    /\ Present("margin_payoff_month") # {}
    /\ summary[1].break_even_timing.median = None
    /\ summary[1].break_even_timing.probability = [num |-> 0, den |-> Len(df)]

-----------------------------------------------------------------------------
(* run_simulation's loop body: run_single_scenario(scenario_returns, i) over *)
(* arrays that hold several scenarios.                                       *)

\* Arrays of three scenarios; in each, two scenarios follow the same path and
\* stand next to different neighbours.
ScenarioSets ==
    { << <<Boom, Bear, 12>>, <<Boom, Bear, 12>>, <<Jackpot, Crash, 1>> >>,
      << <<Jackpot, Crash, 1>>, <<Crash, Boom, 1>>, <<Jackpot, Crash, 1>> >>,
      << <<Crash, Boom, 1>>, <<Boom, Bear, 12>>, <<Boom, Bear, 12>> >>,
      << <<Flat, Flat, 0>>, <<Flat, Crash, 12>>, <<Flat, Flat, 0>> >> }

\* The engine after DividendMarginMonteCarlo(), arrays of several scenarios,
\* and a caller that runs MaxCalls of them in any order.
InitScenarios ==
    /\ config = DefaultConfig
    /\ overrides = 0
    /\ \E ps \in ScenarioSets :
         scenario_returns = ReturnArrays(ps, Months(DefaultConfig))
    /\ call_budget = MaxCalls
    /\ called = << >>
    /\ results = << >>
    /\ pc = "idle"
    /\ NoLocals
    /\ NoAnalysis
    /\ NotGenerating
    /\ df = << >>
    /\ summary = None

\* The steps of run_single_scenario, called by the loop of run_simulation.
NextScenarios ==
    \/ Call
    \/ Deploy
    \/ ApplyReturns
    \/ Total
    \/ DividendIncome
    \/ MarginDraw
    \/ Interest
    \/ Safety
    \/ Drawdown
    \/ Record
    \/ Final

SpecScenarios == InitScenarios /\ [][NextScenarios]_vars

\* The index-i slice of the return arrays.
Slice(i) ==
    [layer1 |-> scenario_returns.layer1_returns[i],
     buckets |-> scenario_returns.bucket_returns[i],
     googl |-> scenario_returns.googl_returns[i],
     hedge |-> scenario_returns.hedge_returns[i]]

\* C11: scenarios are independent.  Two calls on the same configuration whose
\* index slices of the arrays are equal return equal records, whatever the
\* other scenarios of the arrays hold, whatever the two indices are and
\* whichever calls were made before; and no step of run_single_scenario
\* changes the configuration or the arrays.
C11_ScenariosIndependent ==
    /\ [](\A i, j \in 1..Len(results) :
            Slice(called[i]) = Slice(called[j]) => results[i] = results[j])
    /\ [][config' = config /\ scenario_returns' = scenario_returns]_vars

\* C11 witness: two different indices holding the same slice were run, one
\* after the other, next to a scenario with other returns, and returned the
\* same record.
C11_Witness ==
    /\ Len(results) >= 2
    /\ called[1] # called[2]
    /\ Slice(called[1]) = Slice(called[2])
    /\ results[1] = results[2]
    /\ \E j \in DOMAIN scenario_returns.layer1_returns :
         Slice(j) # Slice(called[1])

-----------------------------------------------------------------------------
(* AnalysisRunner (src/ui/services/analysis_runner.py): the four tool        *)
(* methods and run_analysis.  What a tool's fetch and calculation do is the  *)
(* environment's choice: the body runs to its return or one of its steps     *)
(* raises.                                                                   *)

\* The tools run_analysis knows, in the order of its four tests.
KnownTools == <<"momentum", "volatility", "risk", "moving_averages">>

\* Names a caller may put into the tools list; "options" is not a known tool.
ToolNames == {"momentum", "volatility", "risk", "moving_averages", "options"}

\* Exceptions the fetch functions and the calculators raise, with str(e).
\* All are subclasses of Exception.
Exceptions ==
    { [class |-> "ValueError", text |-> "No data found for ticker"],
      [class |-> "ImportError",
       text |-> "yfinance not installed. Run: uv add yfinance"],
      [class |-> "Exception", text |-> ""] }

ExceptionClasses == {"Exception", "ValueError", "ImportError"}

\* What the body of a try block did: ran to the return, or raised in the
\* fetch or in the calculation.
ToolOutcomes ==
    { [step |-> "return", exc |-> None] }
    \cup { [step |-> st, exc |-> Some(e)] :
             st \in {"fetch", "calculate"}, e \in Exceptions }

\* Handles that catches ValueError only.
Handles_ValueErrorOnly(e) == e.class = "ValueError"

\* except Exception as e
Handles(e) == e.class \in ExceptionClasses

\* The envelope a tool method returns for an outcome it does not propagate.
Envelope(tool, outcome) ==
    IF outcome.exc = None
    THEN [ok |-> TRUE, tool |-> tool, data |-> Some("model_dump"),
          error |-> None]
    ELSE [ok |-> FALSE, tool |-> tool, data |-> None,
          error |-> Some(outcome.exc[1].text)]

\* The tool method lets the exception out.
Propagates(outcome) == outcome.exc # None /\ ~Handles(outcome.exc[1])

\* d[key] = value on a dictionary.
Put(d, key, value) ==
    [k \in DOMAIN d \cup {key} |-> IF k = key THEN value ELSE d[k]]

\* The position after the test of the i-th known tool.
After(i) == IF i < Len(KnownTools) THEN KnownTools[i + 1] ELSE "returned"

\* if <tool> in tools: results[<tool>] = cls.run_<tool>(ticker, timeframe)
RunTool(i) ==
    LET tool == KnownTools[i]
    IN  /\ pc = tool
        /\ IF tool \in tools
           THEN \E outcome \in ToolOutcomes :
                  /\ tool_outcomes' = Put(tool_outcomes, tool, outcome)
                  /\ IF Propagates(outcome)
                     THEN pc' = outcome.exc[1].class
                          /\ tool_results' = tool_results
                     ELSE pc' = After(i)
                          /\ tool_results' =
                               Put(tool_results, tool, Envelope(tool, outcome))
           ELSE pc' = After(i) /\ UNCHANGED <<tool_outcomes, tool_results>>
        /\ UNCHANGED <<engine, returned, scenario_idx, month, layers, margin,
                       tracking, month_locals, series, aggregate, tools>>

RunMomentum == RunTool(1)

RunVolatility == RunTool(2)

RunRisk == RunTool(3)

RunMovingAverages == RunTool(4)

\* AnalysisRunner.run_analysis(ticker, timeframe, tools) is entered.
InitAnalysis ==
    /\ config = DefaultConfig
    /\ overrides = 0
    /\ scenario_returns = ReturnArrays(<< >>, Months(DefaultConfig))
    /\ call_budget = 0
    /\ called = << >>
    /\ results = << >>
    /\ pc = KnownTools[1]
    /\ NoLocals
    /\ NotGenerating
    /\ df = << >>
    /\ summary = None
    /\ tools \in SUBSET ToolNames
    /\ tool_outcomes = << >>
    /\ tool_results = << >>

NextAnalysis ==
    \/ RunMomentum
    \/ RunVolatility
    \/ RunRisk
    \/ RunMovingAverages

SpecAnalysis == InitAnalysis /\ [][NextAnalysis]_vars

\* The known tools among the requested ones.
Requested == { KnownTools[i] : i \in 1..Len(KnownTools) } \cap tools

\* C12: no tool failure leaves run_analysis: the position is never that of a
\* propagated exception; every envelope has the keys ok, tool, data, error
\* and carries its tool's name; ok = True implies error is None; a tool whose
\* fetch or calculation raised has ok = False, data = None and error = the
\* exception's text; and on return there is exactly one envelope per
\* requested known tool, whichever of them failed.
C12_EnvelopesNeverPropagate ==
    /\ pc \notin ExceptionClasses
    /\ \A t \in DOMAIN tool_results :
         LET env == tool_results[t]
             outcome == tool_outcomes[t]
         IN  /\ DOMAIN env = {"ok", "tool", "data", "error"}
             /\ env.tool = t
             /\ env.ok => env.error = None
             /\ env.ok = (outcome.exc = None)
             /\ outcome.exc # None =>
                  /\ env.data = None
                  /\ env.error = Some(outcome.exc[1].text)
    /\ pc = "returned" => DOMAIN tool_results = Requested

\* C12 witness: all four tools and an unknown one were requested, the first
\* failed while fetching, a later one failed while calculating and the last
\* one ran; four envelopes came back.
C12_Witness ==
    /\ pc = "returned"
    /\ tools = ToolNames
    /\ tool_outcomes["momentum"].step = "fetch"
    /\ ~tool_results["momentum"].ok
    /\ tool_outcomes["risk"].step = "calculate"
    /\ tool_results["moving_averages"].ok
    /\ DOMAIN tool_results = Requested

-----------------------------------------------------------------------------
(* get_margin_draw(month) on its own, for months inside and outside the     *)
(* simulated ones and for every iteration order of the schedule.            *)

\* The orders in which a dictionary with these items can be iterated.
Orders(items) ==
    { [i \in 1..Len(items) |-> items[f[i]]] :
        f \in Permutations(1..Len(items)) }

\* mc.get_margin_draw(month) is about to be called.
InitDraw ==
    /\ \E schedule \in Orders(DefaultConfig.margin_schedule) :
         config = SetAttribute(DefaultConfig, "margin_schedule", schedule)
    /\ overrides = 0
    /\ scenario_returns = ReturnArrays(<< >>, Months(DefaultConfig))
    /\ call_budget = 0
    /\ called = << >>
    /\ results = << >>
    /\ pc = "get_margin_draw"
    /\ scenario_idx = 0
    /\ month \in (0 - MaxProbeMonth)..MaxProbeMonth
    /\ layer1_portfolio = 0 /\ income_portfolio = 0
    /\ googl_position = 0 /\ hedge_position = 0
    /\ margin_balance = 0
    /\ total_dividends_collected = 0
    /\ max_drawdown = [num |-> 0, den |-> 1]
    /\ peak_total_value = 0
    /\ margin_call_triggered = FALSE /\ backstop_used = FALSE
    /\ backstop_amount_used = 0
    /\ total_portfolio_value = 0
    /\ current_yield = [num |-> 0, den |-> 1]
    /\ monthly_dividend = 0
    /\ margin_draw = 0
    /\ monthly_portfolio = << >> /\ monthly_layer1 = << >>
    /\ monthly_layer2 = << >> /\ monthly_margin = << >>
    /\ monthly_dividends = << >> /\ monthly_googl = << >>
    /\ monthly_hedge = << >>
    /\ NoAnalysis
    /\ NotGenerating
    /\ df = << >>
    /\ summary = None

\* margin_draw = self.get_margin_draw(month)
GetMarginDraw ==
    /\ pc = "get_margin_draw"
    /\ margin_draw' = get_margin_draw(config, month)
    /\ pc' = "drawn"
    /\ UNCHANGED <<engine, returned, scenario_idx, month, layers, margin,
                   tracking, total_portfolio_value, current_yield,
                   monthly_dividend, series, aggregate, runner>>

NextDraw == GetMarginDraw

SpecDraw == InitDraw /\ [][NextDraw]_vars

\* The ranges of a schedule that hold month m.
RangesHolding(schedule, m) ==
    { i \in 1..Len(schedule) : schedule[i][1] <= m /\ m <= schedule[i][2] }

\* C16: get_margin_draw returns 4500 for the months 1..6, 6213 for 7..12,
\* 8000 for 13..28 and 0 for every other month; each month of 1..28 lies in
\* exactly one range of the schedule and every other month in none, so the
\* order in which the schedule is iterated does not change the result.
C16_DrawIsStepFunction ==
    /\ \A m \in (0 - MaxProbeMonth)..MaxProbeMonth :
         Cardinality(RangesHolding(config.margin_schedule, m))
           = IF m \in 1..28 THEN 1 ELSE 0
    /\ pc = "drawn" =>
         margin_draw = IF month \in 1..6 THEN 450000
                       ELSE IF month \in 7..12 THEN 621300
                       ELSE IF month \in 13..28 THEN 800000
                       ELSE 0

\* C16 witness: the draw of month 28, the last month of the last range, was
\* looked up in a schedule iterated in another order than the insertion
\* order.
C16_Witness ==
    /\ pc = "drawn" /\ month = 28
    /\ config.margin_schedule # DefaultConfig.margin_schedule
    /\ margin_draw = 800000

-----------------------------------------------------------------------------
(* calculate_monthly_yield as a function of the month and the degradation   *)
(* rate: specification SpecYield asks for the yield of one month on an      *)
(* engine whose yield_degradation_rate is any whole percent of [0, 1].      *)

RatePercents == 0..100

\* mc.calculate_monthly_yield(month) is about to be called.
InitYield ==
    /\ \E rate \in RatePercents, managed \in BOOLEAN :
         config = SetAttribute(
                      SetAttribute(DefaultConfig, "yield_degradation_rate", rate),
                      "active_management", managed)
    /\ overrides = 0
    /\ scenario_returns = ReturnArrays(<< >>, Months(DefaultConfig))
    /\ call_budget = 0
    /\ called = << >>
    /\ results = << >>
    /\ pc = "calculate_monthly_yield"
    /\ scenario_idx = 0
    /\ month \in 1..Months(DefaultConfig)
    /\ layer1_portfolio = 0 /\ income_portfolio = 0
    /\ googl_position = 0 /\ hedge_position = 0
    /\ margin_balance = 0
    /\ total_dividends_collected = 0
    /\ max_drawdown = [num |-> 0, den |-> 1]
    /\ peak_total_value = 0
    /\ margin_call_triggered = FALSE /\ backstop_used = FALSE
    /\ backstop_amount_used = 0
    /\ total_portfolio_value = 0
    /\ current_yield = [num |-> 0, den |-> 1]
    /\ monthly_dividend = 0
    /\ margin_draw = 0
    /\ monthly_portfolio = << >> /\ monthly_layer1 = << >>
    /\ monthly_layer2 = << >> /\ monthly_margin = << >>
    /\ monthly_dividends = << >> /\ monthly_googl = << >>
    /\ monthly_hedge = << >>
    /\ NoAnalysis
    /\ NotGenerating
    /\ df = << >>
    /\ summary = None

\* current_yield = self.calculate_monthly_yield(month)
CalculateMonthlyYield ==
    /\ pc = "calculate_monthly_yield"
    /\ current_yield' = calculate_monthly_yield(config, month)
    /\ pc' = "yielded"
    /\ UNCHANGED <<engine, returned, scenario_idx, month, layers, margin,
                   tracking, total_portfolio_value, monthly_dividend,
                   margin_draw, series, aggregate, runner>>

NextYield == CalculateMonthlyYield

SpecYield == InitYield /\ [][NextYield]_vars

\* The yield of the month on the straight line, and that yield after one
\* rotation: plus start x yield_recovery_on_rotation, capped at the start.
LineYield ==
    [num |-> config.target_yield
               * (100 * Months(config)
                    - config.yield_degradation_rate * (month - 1)),
     den |-> 100 * Months(config)]

RotatedYield ==
    [num |-> Min(config.target_yield * LineYield.den,
                 LineYield.num
                   + (config.target_yield * config.yield_recovery_on_rotation
                        * LineYield.den) \div 100),
     den |-> LineYield.den]

\* The fractional decline from the start yield, rate x (month - 1) / months,
\* is strictly greater than 15%.
DeclineAbove15 ==
    config.yield_degradation_rate * (month - 1) > 15 * Months(config)

\* C22: for every month 1..28 and every degradation rate in [0, 1] the
\* returned yield is at most the start yield; the recovery is never applied
\* in months 1..6, and from month 7 on (under active management) it is
\* applied exactly when the decline from the start yield is strictly greater
\* than 15%, adding start x yield_recovery_on_rotation capped at the start.
C22_RecoveryExactlyAbove15 ==
    pc = "yielded" =>
        /\ ~FracLess([num |-> config.target_yield, den |-> 1], current_yield)
        /\ IF config.active_management /\ month >= 7 /\ DeclineAbove15
           THEN FracEq(current_yield, RotatedYield)
           ELSE FracEq(current_yield, LineYield)

-----------------------------------------------------------------------------
(* simulate_market_returns(n_scenarios), step by step: specification        *)
(* SpecGenerate.  Returns are in units of 1e-5 here, volatility multipliers *)
(* in tenths.  A draw of np.random.normal(mean, sd) is mean + z * sd for a  *)
(* standard-normal quantile z; one z stands for all the draws of a month,   *)
(* and the draws are off the mean in the first month of a scenario only.    *)

\* list(regime_probs.keys())
regime_names == <<"bull", "normal", "bear", "crisis">>

Regimes == { regime_names[k] : k \in 1..Len(regime_names) }

\* market_drift of a regime: the annual drift over 12.
MonthlyDrift(r) ==
    IF r = "bull" THEN 15000 \div 12
    ELSE IF r = "normal" THEN 8000 \div 12
    ELSE IF r = "bear" THEN (0 - 15000) \div 12
    ELSE (0 - 40000) \div 12

\* vol_multiplier of a regime.
VolMultiplier(r) ==
    IF r = "bull" THEN 8
    ELSE IF r = "normal" THEN 10
    ELSE IF r = "bear" THEN 15
    ELSE 30

\* annual / np.sqrt(12), with sqrt(12) = 3.464.
MonthlyVol(annual) == (annual * 1000) \div 3464

\* np.random.normal(mean, sd)
Normal(mean, sd, z) == mean + z * sd

\* The standard-normal quantile and the outcome of np.random.random() < 0.05
\* of a month (0-based).
Draws(m) ==
    IF m = 0 THEN { <<0 - 1, FALSE>>, <<1, TRUE>> }
    ELSE { <<0, FALSE>> }

\* The body of the month loop: the entries of one month of one scenario,
\* from the drift and the volatility multiplier in force.
MonthReturns(cfg, drift, multiplier, z, fat_tail) ==
    LET market_vol == MonthlyVol(16000)
        market_ret == Normal(drift, (market_vol * multiplier) \div 10, z)
        layer1_vol == MonthlyVol((cfg.layer1_volatility * 100 * multiplier)
                                    \div 10)
        layer1_drift == 18000 \div 12
        idiosyncratic_layer1 == Normal(0, (layer1_vol * 15) \div 100, z)
        bucket_vol(i) == MonthlyVol((cfg.bucket_volatility[i] * 100 * multiplier)
                                       \div 10)
        bucket(i) ==
            IF bucket_names[i] = "yieldmax" /\ fat_tail
            THEN Normal((drift * 8) \div 10, (bucket_vol(i) * 25) \div 10, z)
            ELSE (market_ret * 7) \div 10
                   + Normal(0, (bucket_vol(i) * 3) \div 10, z)
        googl_vol == MonthlyVol((cfg.googl_volatility * 100 * multiplier)
                                   \div 10)
        googl_drift == 15000 \div 12
        vol_drag == 2000 \div 12
    IN  [ market |-> market_ret,
          layer1 |-> (12 * market_ret) \div 10 + idiosyncratic_layer1
                       + (layer1_drift - drift),
          buckets |-> [i \in 1..Len(bucket_names) |-> bucket(i)],
          googl |-> Normal(googl_drift, googl_vol, z),
          hedge |-> (0 - 3 * market_ret) - (vol_drag * multiplier) \div 10 ]

\* The np.zeros arrays for n scenarios.
Zeros(n, months) ==
    LET flat == [s \in 0..(n - 1) |-> [i \in 0..(months - 1) |-> 0]]
    IN  [ layer1_returns |-> flat,
          bucket_returns |-> [s \in 0..(n - 1) |->
                                [i \in 0..(months - 1) |-> <<0, 0, 0, 0, 0>>]],
          googl_returns |-> flat,
          hedge_returns |-> flat,
          market_returns |-> flat ]

\* n_scenarios, as the arrays were allocated.
Rows(arrays) == Cardinality(DOMAIN arrays.layer1_returns)

\* The entries [s, i] of the five arrays.
Entries(arrays, s, i) ==
    [ market |-> arrays.market_returns[s][i],
      layer1 |-> arrays.layer1_returns[s][i],
      buckets |-> arrays.bucket_returns[s][i],
      googl |-> arrays.googl_returns[s][i],
      hedge |-> arrays.hedge_returns[s][i] ]

\* The arrays with the entries [s, i] assigned.
Fill(arrays, s, i, e) ==
    [ arrays EXCEPT !.market_returns[s][i] = e.market,
                    !.layer1_returns[s][i] = e.layer1,
                    !.bucket_returns[s][i] = e.buckets,
                    !.googl_returns[s][i] = e.googl,
                    !.hedge_returns[s][i] = e.hedge ]

\* simulate_market_returns(n_scenarios) has allocated its arrays.
InitGenerate ==
    /\ config = DefaultConfig
    /\ overrides = 0
    /\ \E n \in 0..MaxScenarios :
         /\ scenario_returns = Zeros(n, Months(DefaultConfig))
         /\ pc = IF n > 0 THEN "regime" ELSE "generated"
    /\ call_budget = 0
    /\ called = << >>
    /\ results = << >>
    /\ NoLocals
    /\ NoAnalysis
    /\ NotGenerating
    /\ df = << >>
    /\ summary = None

\* The top of the scenario loop: the regime is drawn and its parameters set.
DrawRegime ==
    /\ pc = "regime"
    /\ \E r \in Regimes :
         /\ regime' = r
         /\ market_drift' = MonthlyDrift(r)
         /\ vol_multiplier' = VolMultiplier(r)
         /\ regime_draws' = Append(regime_draws, <<scenario, r>>)
    /\ month' = 0
    /\ pc' = "month"
    /\ UNCHANGED <<config, overrides, scenario_returns, call_budget, scenario,
                   returned, scenario_idx, layers, margin, tracking,
                   month_locals, series, aggregate, runner>>

\* GenerateMonth that assigns the regime again after each month.
GenerateMonth_Redraws ==
    /\ pc = "month"
    /\ \E d \in Draws(month) :
         scenario_returns' =
             Fill(scenario_returns, scenario, month,
                  MonthReturns(config, market_drift, vol_multiplier, d[1], d[2]))
    /\ \E r \in Regimes :
         /\ regime' = r
         /\ market_drift' = MonthlyDrift(r)
         /\ vol_multiplier' = VolMultiplier(r)
         /\ regime_draws' = Append(regime_draws, <<scenario, r>>)
    /\ IF month + 1 < Months(config)
       THEN month' = month + 1 /\ pc' = "month" /\ scenario' = scenario
       ELSE /\ month' = month
            /\ IF scenario + 1 < Rows(scenario_returns)
               THEN scenario' = scenario + 1 /\ pc' = "regime"
               ELSE scenario' = scenario /\ pc' = "generated"
    /\ UNCHANGED <<config, overrides, call_budget, returned, scenario_idx,
                   layers, margin, tracking, month_locals, series, aggregate,
                   runner>>

\* One pass of the month loop; after the last month the scenario loop goes to
\* the next scenario or the arrays are returned.
GenerateMonth ==
    /\ pc = "month"
    /\ \E d \in Draws(month) :
         scenario_returns' =
             Fill(scenario_returns, scenario, month,
                  MonthReturns(config, market_drift, vol_multiplier, d[1], d[2]))
    /\ IF month + 1 < Months(config)
       THEN month' = month + 1 /\ pc' = "month" /\ scenario' = scenario
       ELSE /\ month' = month
            /\ IF scenario + 1 < Rows(scenario_returns)
               THEN scenario' = scenario + 1 /\ pc' = "regime"
               ELSE scenario' = scenario /\ pc' = "generated"
    /\ UNCHANGED <<config, overrides, call_budget, regime, market_drift,
                   vol_multiplier, regime_draws, returned, scenario_idx,
                   layers, margin, tracking, month_locals, series, aggregate,
                   runner>>

NextGenerate ==
    \/ DrawRegime
    \/ GenerateMonth

SpecGenerate == InitGenerate /\ [][NextGenerate]_vars

\* The scenarios whose pass of the scenario loop has begun its month loop.
Started ==
    IF pc = "regime" \/ Rows(scenario_returns) = 0 THEN scenario
    ELSE scenario + 1

\* The months (0-based) of scenario s generated so far.
Generated(s) ==
    IF pc = "month" /\ s = scenario THEN 0..(month - 1)
    ELSE 0..(Months(config) - 1)

\* C23: the regime of a scenario is drawn exactly once, before the month
\* loop; the drift and the volatility multiplier of that one regime are used
\* for every month and every layer of the scenario, and they do not change
\* while the months of the scenario are generated.
C23_RegimeFixedPerScenario ==
    /\ [](/\ Len(regime_draws) = Started
          /\ \A k \in 1..Len(regime_draws) : regime_draws[k][1] = k - 1
          /\ \A s \in 0..(Started - 1) :
                \A i \in Generated(s) :
                  \E d \in Draws(i) :
                    Entries(scenario_returns, s, i)
                      = MonthReturns(config,
                                     MonthlyDrift(regime_draws[s + 1][2]),
                                     VolMultiplier(regime_draws[s + 1][2]),
                                     d[1], d[2]))
    /\ [][pc = "month" =>
            /\ regime' = regime
            /\ market_drift' = market_drift
            /\ vol_multiplier' = vol_multiplier
            /\ regime_draws' = regime_draws]_vars

\* Two scenarios were generated under different regimes.
C23_Witness ==
    /\ pc = "generated"
    /\ Len(regime_draws) = 2
    /\ regime_draws[1][2] = "crisis"
    /\ regime_draws[2][2] = "bull"
    /\ scenario_returns.market_returns[0][27] = MonthlyDrift("crisis")
    /\ scenario_returns.market_returns[1][27] = MonthlyDrift("bull")

-----------------------------------------------------------------------------
(* run_simulation(n_scenarios) followed by analyze_results, as the script   *)
(* at the end of the module runs them: specification SpecSimulation.        *)
(* call_budget is n_scenarios; the loop variable i is the number of records *)
(* appended so far.                                                         *)

\* The paths simulate_market_returns hands over in this specification.
SimulationPaths == { <<Boom, Bear, 12>>, <<Crash, Flat, 2>>, <<Crash, Boom, 1>> }

\* mc.run_simulation(n_scenarios) is entered on a new engine.
InitSimulation ==
    /\ config = DefaultConfig
    /\ overrides = 0
    /\ scenario_returns = ReturnArrays(<< >>, Months(DefaultConfig))
    /\ call_budget \in 0..MaxScenarios
    /\ called = << >>
    /\ results = << >>
    /\ pc = "run_simulation"
    /\ NoLocals
    /\ NoAnalysis
    /\ NotGenerating
    /\ df = << >>
    /\ summary = None

\* scenario_returns = self.simulate_market_returns(n_scenarios); results = []
SimulateMarketReturns ==
    /\ pc = "run_simulation"
    /\ \E ps \in [1..call_budget -> SimulationPaths] :
         scenario_returns' = ReturnArrays(ps, Months(config))
    /\ pc' = "idle"
    /\ UNCHANGED <<config, overrides, call_budget, generator, returned,
                   scenario_idx, month, layers, margin, tracking, month_locals,
                   series, aggregate, runner>>

\* RunScenario that takes the scenarios from the last to the first.
RunScenario_Reversed ==
    /\ Call
    /\ scenario_idx' = call_budget - 1 - Len(results)

\* for i in range(n_scenarios): self.run_single_scenario(scenario_returns, i)
RunScenario ==
    /\ Call
    /\ scenario_idx' = Len(results)

\* The loop is exhausted: return pd.DataFrame(results), which the script
\* hands to analyze_results.
ReturnFrame ==
    /\ pc = "idle"
    /\ Len(results) >= call_budget
    /\ df' = results
    /\ pc' = "analyze"
    /\ UNCHANGED <<engine, returned, scenario_idx, month, layers, margin,
                   tracking, month_locals, series, summary, runner>>

NextSimulation ==
    \/ SimulateMarketReturns
    \/ RunScenario
    \/ Deploy
    \/ ApplyReturns
    \/ Total
    \/ DividendIncome
    \/ MarginDraw
    \/ Interest
    \/ Safety
    \/ Drawdown
    \/ Record
    \/ Final
    \/ ReturnFrame
    \/ Analyze

SpecSimulation == InitSimulation /\ [][NextSimulation]_vars

\* C24: the arrays of all N scenarios exist before the first scenario is
\* simulated and are not touched afterwards; the scenarios are simulated one
\* at a time in the order 0..N-1; the frame returned has exactly N records,
\* row i the record of scenario i; the summary is computed only when all N
\* records exist.
C24_GenerateSimulateAnalyze ==
    /\ [](/\ pc # "run_simulation" =>
               DOMAIN scenario_returns.layer1_returns = 0..(call_budget - 1)
          /\ \A k \in 1..Len(called) : called[k] = k - 1
          /\ Len(called) <= call_budget
          /\ Len(results) <= Len(called)
          /\ Len(called) <= Len(results) + 1
          /\ pc \in {"analyze", "analyzed", "KeyError"} =>
               df = results /\ Len(df) = call_budget
          /\ summary # None => Len(df) = call_budget /\ df = results)
    /\ [][scenario_returns' # scenario_returns =>
            called = << >> /\ results = << >>]_vars
    /\ [][Len(results') > Len(results) =>
            /\ scenario_idx = Len(results)
            /\ results' = Append(results, ScenarioResult)]_vars
    /\ [][summary' # summary => Len(results) = call_budget]_vars

\* Two different scenarios were simulated and the summary was computed.
C24_Witness ==
    /\ pc = "analyzed"
    /\ call_budget = 2
    /\ Len(df) = 2
    /\ called = <<0, 1>>
    /\ df[1] # df[2]
    /\ summary # None

\* C27: under the default configuration the recovery branch is not reached in
\* any month 1..28, the largest decline being 0.15 x 27/28 < 0.15; the yield
\* of every month is the straight-line yield, with active management or
\* without.
C27_RecoveryUnreachableByDefault ==
    (pc = "yielded"
       /\ config.yield_degradation_rate = DefaultConfig.yield_degradation_rate)
    => /\ config.yield_degradation_rate * (month - 1) * 28
             <= 15 * 27 * Months(config)
       /\ ~DeclineAbove15
       /\ FracEq(current_yield, LineYield)
       /\ current_yield =
             calculate_monthly_yield(
                 SetAttribute(config, "active_management", FALSE), month)
       /\ current_yield =
             calculate_monthly_yield(
                 SetAttribute(config, "active_management", TRUE), month)

\* The yield of month 28 under the default configuration with active
\* management: below the start yield, by less than 15%.
C27_Witness ==
    /\ pc = "yielded"
    /\ config = DefaultConfig
    /\ month = 28
    /\ FracLess(current_yield, [num |-> config.target_yield, den |-> 1])
    /\ FracLess([num |-> config.target_yield * 85, den |-> 100], current_yield)

\* The records of a frame that end margin-free, and those with a payoff month.
MarginFree(frame) == { n \in 1..Len(frame) : frame[n].final_margin_balance = 0 }

PaidOff(frame) == { n \in 1..Len(frame) : frame[n].margin_payoff_month # None }

\* C28: a record whose final margin balance is 0 has a margin payoff month,
\* at most 28; hence probability_margin_free is at most the probability of
\* the margin payoff timing block.  (The converse fails: C28_Witness.)
C28_MarginFreeImpliesPayoffMonth ==
    /\ \A n \in MarginFree(results) :
          /\ results[n].margin_payoff_month # None
          /\ results[n].margin_payoff_month[1] \in 2..Months(config)
    /\ summary # None =>
          /\ ~FracLess(summary[1].margin_payoff_timing.probability,
                       summary[1].success_metrics.probability_margin_free)
          /\ summary[1].success_metrics.probability_margin_free
               = Proportion(Cardinality(MarginFree(df)), Len(df))
          /\ summary[1].margin_payoff_timing.probability
               = Proportion(Cardinality(PaidOff(df)), Len(df))

\* A summary over one record that ends margin-free and one that has a payoff
\* month and ends in debt: the two probabilities differ.
C28_Witness ==
    /\ pc = "analyzed"
    /\ MarginFree(df) # {}
    /\ \E n \in PaidOff(df) : df[n].final_margin_balance > 0
    /\ FracLess(summary[1].success_metrics.probability_margin_free,
                summary[1].margin_payoff_timing.probability)

====
